---- MODULE Spec2Model ----
(***************************************************************************)
(* Model of the metadata-embedding code of edit-exif-image:                *)
(*   src/api/edit-exif.js  three variants of the server embed handler      *)
(*       V1  lines 34-340   EXIF text fields + ExifTool pass               *)
(*       V2  lines 364-567  legacy exifData-only handler                   *)
(*       V3  lines 603-834  EXIF GPS + ExifTool-only text fields           *)
(*   src/app.js            the browser save handler                        *)
(*       (collectFormData, writeExifData)                                  *)
(* JavaScript strings are sequences of one-character strings, numbers are  *)
(* exact rationals n/d with d > 0.                                         *)
(***************************************************************************)
EXTENDS Integers, Sequences, FiniteSets, TLC

VARIABLES
    variant,        \* which embed path runs: "V1", "V2", "V3", "browser", "none"
    pc,             \* position of the request in its handler
    req,            \* the request: method and JSON body
    res,            \* the response sent (status 0: none yet)
    imageBuffer,    \* the bytes obtained by fetch / base64 decode
    ops,            \* the image operations performed so far for this request
    loadedExif,     \* the container as piexif.load returned it
    exifObj,        \* the container being merged and then serialized
    written,        \* the tags this request assigned in exifObj
    exifToolTags,   \* the XMP/IPTC tag mapping handed to ExifTool
    imageBufferWithExif, \* result of piexif.insert
    finalImageBuffer,    \* what the handler sends
    tempFile,       \* the temp file of the secondary pass
    exiftool,       \* the ExifTool instance: "none", "open", "ended"
    exifToolError,  \* the step whose error the catch of the secondary pass caught
    form,           \* browser: the form fields read by collectFormData
    currentImageData, \* browser: the loaded image (data URL)
    previewImg      \* browser: what the preview shows (previewImg.src)

\* one call of convertDDToDMS and of convertDMSToDD on its result
VARIABLES
    codecPc,        \* "off", "called", "converted", "restored"
    codecFile,      \* the source file whose convertDDToDMS is called
    ddArg,          \* the decimal degrees passed (dd), the rational n/d
    isLatArg,       \* the isLat argument
    dmsResult,      \* what convertDDToDMS returned
    restored        \* what convertDMSToDD returned for it

codecVars == <<codecPc, codecFile, ddArg, isLatArg, dmsResult, restored>>

\* concurrent requests in the secondary pass of one handler variant
VARIABLES
    poolHandler,    \* the variant serving the requests: "V1", "V3", "none"
    now,            \* Date.now(), in milliseconds
    inflight,       \* per request: "waiting", "written", "tooled", "sent"
    tempInput,      \* per request: the temp path it computed
    tmpdir,         \* os.tmpdir(): the paths that exist and what each holds
    readBack        \* per request: the request whose image it read back and sent

poolVars == <<poolHandler, now, inflight, tempInput, tmpdir, readBack>>

\* one request to the crop handler, src/unnamed/part_001
VARIABLES
    cropPc,         \* "off", "idle", "received", "validated", "loaded", "measured", "done"
    cropReq,        \* the request: method, image source, cropOptions
    metadata,       \* what sharp(buffer).metadata() returned: width and height
    extractArea,    \* the region handed to sharp's extract, when it was called
    cropRes         \* the response: status (0: none yet) and error

cropVars == <<cropPc, cropReq, metadata, extractArea, cropRes>>

\* image loads in the browser, src/app.js lines 53-150
VARIABLES
    loading,        \* per load: its source, its image and the callback it waits for
    originalImageFormat \* browser: the MIME type the last reader callback detected

loadVars == <<loading, originalImageFormat>>

\* the variables the embed handlers and the save handler leave alone
sideVars == <<codecVars, poolVars, cropVars, loadVars>>

vars == <<variant, pc, req, res, imageBuffer, ops, loadedExif, exifObj, written,
          exifToolTags, imageBufferWithExif, finalImageBuffer, tempFile,
          exiftool, exifToolError, form, currentImageData, previewImg, sideVars>>

----------------------------------------------------------------------------
(* JavaScript values.  One record shape for every value:                   *)
(*   t  the type, s  the characters of a string, l  the elements of an     *)
(*   array, n/d  the value of a number.  "numstring" is a string spelling  *)
(*   the decimal n/d, "datestring" a string spelling a date in year n.     *)

Undef == [t |-> "undefined", s |-> <<>>, l |-> <<>>, n |-> 0, d |-> 1]
Null == [t |-> "null", s |-> <<>>, l |-> <<>>, n |-> 0, d |-> 1]
Str(chars) == [t |-> "string", s |-> chars, l |-> <<>>, n |-> 0, d |-> 1]
List(elems) == [t |-> "array", s |-> <<>>, l |-> elems, n |-> 0, d |-> 1]
Num(num, den) == [t |-> "number", s |-> <<>>, l |-> <<>>, n |-> num, d |-> den]
NumStr(num, den) == [t |-> "numstring", s |-> <<"#">>, l |-> <<>>, n |-> num, d |-> den]
DateStr(year) == [t |-> "datestring", s |-> <<"@">>, l |-> <<>>, n |-> year, d |-> 1]

IsString(v) == v.t \in {"string", "numstring", "datestring"}

\* JavaScript truthiness: undefined, null, "" and 0 are falsy; arrays are truthy
Truthy(v) ==
    CASE v.t = "undefined" -> FALSE
      [] v.t = "null" -> FALSE
      [] v.t = "number" -> v.n # 0
      [] v.t = "array" -> TRUE
      [] OTHER -> Len(v.s) > 0

\* v.length of a string or an array
JSLength(v) == IF v.t = "array" THEN Len(v.l) ELSE Len(v.s)

\* parseFloat: a number or numeric string gives its value, anything else NaN
NaN == [nan |-> TRUE, n |-> 0, d |-> 1]
parseFloat(v) ==
    IF v.t \in {"number", "numstring"}
    THEN [nan |-> FALSE, n |-> v.n, d |-> v.d]
    ELSE NaN

----------------------------------------------------------------------------
(* String functions on character sequences *)

RECURSIVE TrimStart(_)
TrimStart(s) ==
    IF Len(s) > 0 /\ Head(s) = " " THEN TrimStart(Tail(s)) ELSE s

RECURSIVE TrimEnd(_)
TrimEnd(s) ==
    IF Len(s) > 0 /\ s[Len(s)] = " " THEN TrimEnd(SubSeq(s, 1, Len(s) - 1)) ELSE s

\* String.prototype.trim
Trim(s) == TrimEnd(TrimStart(s))

\* String.prototype.split(','): "" splits to [""], "a,,b" to ["a","","b"]
RECURSIVE Split(_)
Split(s) ==
    IF \E i \in 1..Len(s) : s[i] = ","
    THEN LET i == CHOOSE j \in 1..Len(s) :
                      s[j] = "," /\ \A k \in 1..(j - 1) : s[k] # ","
         IN  <<SubSeq(s, 1, i - 1)>> \o Split(SubSeq(s, i + 1, Len(s)))
    ELSE <<s>>

\* Array.prototype.join(sep)
RECURSIVE Join(_, _)
Join(l, sep) ==
    IF Len(l) = 0 THEN <<>>
    ELSE IF Len(l) = 1 THEN l[1]
    ELSE l[1] \o sep \o Join(Tail(l), sep)

CommaSpace == <<",", " ">>
Comma == <<",">>

\* .map(k => k.trim())
MapTrim(l) == [i \in 1..Len(l) |-> Trim(l[i])]

\* .filter(k => k.length > 0)
FilterNonEmpty(l) == SelectSeq(l, LAMBDA k : Len(k) > 0)

\* String(v): a string is itself, an array is its elements joined by ","
JSString(v) ==
    CASE v.t = "array" -> Join(v.l, Comma)
      [] v.t = "undefined" -> <<"u", "n", "d", "e", "f", "i", "n", "e", "d">>
      [] v.t = "null" -> <<"n", "u", "l", "l">>
      [] OTHER -> v.s

----------------------------------------------------------------------------
(* EXIF containers: a function from the tags present, <<section, tag>>, to  *)
(* their values.  Text values are character sequences, a DMS coordinate is  *)
(* three rationals, a rational is <<numerator, denominator>>.               *)

EmptyExif == <<>>

HasTag(c, k) == k \in DOMAIN c

\* exifObj[section][tag] = v
Put(c, k, v) == [x \in DOMAIN c \cup {k} |-> IF x = k THEN v ELSE c[x]]

\* fault: the merge starts from a fresh container instead of the loaded one
PutAllFresh(c, w) == w

\* several assignments, w a function from tags to values
PutAll(c, w) == [x \in DOMAIN c \cup DOMAIN w |-> IF x \in DOMAIN w THEN w[x] ELSE c[x]]

Sections == {"0th", "Exif", "GPS", "Interop", "1st"}

GPSLatitude == <<"GPS", "GPSLatitude">>
GPSLatitudeRef == <<"GPS", "GPSLatitudeRef">>
GPSLongitude == <<"GPS", "GPSLongitude">>
GPSLongitudeRef == <<"GPS", "GPSLongitudeRef">>
GPSAltitude == <<"GPS", "GPSAltitude">>
GPSAltitudeRef == <<"GPS", "GPSAltitudeRef">>
ImageDescription == <<"0th", "ImageDescription">>
DocumentName == <<"0th", "DocumentName">>
XPKeywords == <<"0th", "XPKeywords">>
Make == <<"0th", "Make">>
Model == <<"0th", "Model">>
Copyright == <<"0th", "Copyright">>
DateTime == <<"0th", "DateTime">>
Orientation == <<"0th", "Orientation">>
DateTimeOriginal == <<"Exif", "DateTimeOriginal">>
UserComment == <<"Exif", "UserComment">>
FocalLength == <<"Exif", "FocalLength">>
InteroperabilityIndex == <<"Interop", "InteroperabilityIndex">>
Compression == <<"1st", "Compression">>

GPSFour == {GPSLatitude, GPSLatitudeRef, GPSLongitude, GPSLongitudeRef}

----------------------------------------------------------------------------
(* Coordinates *)

SecDenominator == 10000
SecDenominatorBrowser == 100

Abs(n) == IF n < 0 THEN 0 - n ELSE n

\* Math.round of the non-negative rational num/den (halves round up)
RoundRat(num, den) == (2 * num + den) \div (2 * den)

\* Math.round(r * scale / den) for 0 <= r < den, the factor applied a hundred
\* at a time to stay within 32-bit integers
RECURSIVE RoundScaled(_, _, _)
RoundScaled(r, scale, den) ==
    IF scale > 100 /\ scale % 100 = 0
    THEN ((r * 100) \div den) * (scale \div 100)
         + RoundScaled((r * 100) % den, scale \div 100, den)
    ELSE RoundRat(r * scale, den)

\* convertDDToDMS of the number v.n / v.d with the seconds denominator secDen
DDToDMS(v, isLat, secDen) ==
    LET abs == Abs(v.n)
        deg == abs \div v.d
        minNum == (abs - deg * v.d) * 60          \* minFloat = minNum / v.d
        min == minNum \div v.d
        secNum == (minNum - min * v.d) * 60       \* sec = secNum / v.d
        ref == IF isLat
               THEN (IF v.n >= 0 THEN <<"N">> ELSE <<"S">>)
               ELSE (IF v.n >= 0 THEN <<"E">> ELSE <<"W">>)
        \* Math.round(sec * secDen), the whole seconds taken out of the rounding
        secNumerator == (secNum \div v.d) * secDen
                        + RoundScaled(secNum % v.d, secDen, v.d)
    IN  <<<<<<deg, 1>>, <<min, 1>>, <<secNumerator, secDen>>>>, ref>>

\* src/api/edit-exif.js (all three variants)
convertDDToDMS(v, isLat) == DDToDMS(v, isLat, SecDenominator)

\* src/app.js
convertDDToDMSBrowser(v, isLat) == DDToDMS(v, isLat, SecDenominatorBrowser)

\* fault: only the latitude's range is tested
CoordsUsableLatitudeOnly(lat, lon) ==
    /\ ~lat.nan /\ ~lon.nan
    /\ lat.n >= (0 - 90) * lat.d /\ lat.n <= 90 * lat.d

\* !isNaN(lat) && !isNaN(lon) && lat >= -90 && lat <= 90 && lon >= -180 && lon <= 180
CoordsUsable(lat, lon) ==
    /\ ~lat.nan /\ ~lon.nan
    /\ lat.n >= (0 - 90) * lat.d /\ lat.n <= 90 * lat.d
    /\ lon.n >= (0 - 180) * lon.d /\ lon.n <= 180 * lon.d

\* [Math.round(Math.abs(alt) * 100), 100] and the altitude reference
AltitudeTags(alt) ==
    (GPSAltitude :> <<RoundRat(Abs(alt.n) * 100, alt.d), 100>>)
    @@ (GPSAltitudeRef :> (IF alt.n >= 0 THEN 0 ELSE 1))

\* the four coordinate tags, written together
FourGPSTags(lat, lon, isBrowser) ==
    LET latResult == IF isBrowser THEN convertDDToDMSBrowser(lat, TRUE)
                     ELSE convertDDToDMS(lat, TRUE)
        lonResult == IF isBrowser THEN convertDDToDMSBrowser(lon, FALSE)
                     ELSE convertDDToDMS(lon, FALSE)
    IN  (GPSLatitude :> latResult[1]) @@ (GPSLatitudeRef :> latResult[2])
        @@ (GPSLongitude :> lonResult[1]) @@ (GPSLongitudeRef :> lonResult[2])

NoWrites == <<>>

\* fault: each coordinate is written as soon as it alone is usable
GPSWritesEach(latDef, lat, lonDef, lon, altDef, alt) ==
    LET four == FourGPSTags(IF latDef /\ ~lat.nan THEN lat ELSE [nan |-> FALSE, n |-> 0, d |-> 1],
                            IF lonDef /\ ~lon.nan THEN lon ELSE [nan |-> FALSE, n |-> 0, d |-> 1],
                            FALSE)
        latTags == {GPSLatitude, GPSLatitudeRef}
        lonTags == {GPSLongitude, GPSLongitudeRef}
        keep == (IF latDef /\ ~lat.nan /\ lat.n >= (0 - 90) * lat.d /\ lat.n <= 90 * lat.d
                 THEN latTags ELSE {})
                \cup (IF lonDef /\ ~lon.nan /\ lon.n >= (0 - 180) * lon.d
                          /\ lon.n <= 180 * lon.d
                       THEN lonTags ELSE {})
    IN  [k \in keep |-> four[k]]

\* The server handlers' GPS block: what it assigns for lat, lon, alt, where
\* latDef, lonDef, altDef say whether each is not undefined
GPSWrites(latDef, lat, lonDef, lon, altDef, alt) ==
    IF latDef /\ lonDef /\ CoordsUsable(lat, lon)
    THEN FourGPSTags(lat, lon, FALSE)
         @@ (IF altDef /\ ~alt.nan THEN AltitudeTags(alt) ELSE NoWrites)
    ELSE NoWrites

----------------------------------------------------------------------------
(* Images.  An image is the first bytes of the buffer and the EXIF          *)
(* container piexif.load finds in it; xmp is what ExifTool added, whole is  *)
(* FALSE for a truncated or partially written file.                        *)

CameraExif ==
    (Orientation :> 6)
    @@ (ImageDescription :> <<"o", "l", "d">>)
    @@ (Make :> <<"N", "i", "k">>)
    @@ (FocalLength :> <<50, 1>>)
    @@ (UserComment :> <<"c">>)
    @@ (GPSLatitude :> <<<<1, 1>>, <<2, 1>>, <<30000, 10000>>>>)
    @@ (GPSLatitudeRef :> <<"S">>)
    @@ (GPSLongitude :> <<<<4, 1>>, <<5, 1>>, <<60000, 10000>>>>)
    @@ (GPSLongitudeRef :> <<"W">>)
    @@ (InteroperabilityIndex :> <<"R", "9", "8">>)
    @@ (Compression :> 6)

NoTags == <<>>

Buffer(bytes, exif) ==
    [defined |-> TRUE, bytes |-> bytes, exif |-> exif, xmp |-> NoTags, whole |-> TRUE]

\* `let imageBuffer;`: no buffer yet
NoBuffer ==
    [defined |-> FALSE, bytes |-> <<>>, exif |-> EmptyExif, xmp |-> NoTags, whole |-> TRUE]

JpegWithExif == Buffer(<<255, 216>>, CameraExif)
JpegPlain == Buffer(<<255, 216>>, EmptyExif)
PngImage == Buffer(<<137, 80>>, EmptyExif)
HalfMarker == Buffer(<<255, 80>>, EmptyExif)
OneByte == Buffer(<<255>>, EmptyExif)
EmptyBuffer == Buffer(<<>>, EmptyExif)

Images == {JpegWithExif, JpegPlain, PngImage, HalfMarker, OneByte, EmptyBuffer}

\* fault: only the first marker byte is compared
IsJPEGFirstByte(buf) ==
    /\ buf.defined
    /\ Len(buf.bytes) >= 1
    /\ buf.bytes[1] = 255

\* imageBuffer && imageBuffer[0] === 0xFF && imageBuffer[1] === 0xD8
\* (an index past the end is undefined)
IsJPEG(buf) ==
    /\ buf.defined
    /\ Len(buf.bytes) >= 2
    /\ buf.bytes[1] = 255
    /\ buf.bytes[2] = 216

\* piexif.load(imageString), with the catch that starts fresh
LoadExif(buf) == buf.exif

\* piexif.insert(piexif.dump(exifObj), imageString)
InsertExif(c, buf) == Buffer(buf.bytes, c)

----------------------------------------------------------------------------
(* Requests.  exifData is an object: defined says whether the body has it,  *)
(* keys are its own keys (Object.keys), v the value of each legacy field    *)
(* (undefined when the key is missing).                                     *)

LegacyKeys == {"description", "keywords", "make", "model", "copyright",
               "datetime", "latitude", "longitude", "altitude"}

\* the object whose keys and values are those of the function f
Obj(f) == [defined |-> TRUE, keys |-> DOMAIN f,
           v |-> [k \in LegacyKeys |-> IF k \in DOMAIN f THEN f[k] ELSE Undef]]

NoObj == [defined |-> FALSE, keys |-> {}, v |-> [k \in LegacyKeys |-> Undef]]

\* const { imageUrl, imageData, title, ... } = req.body
bodyFields == {"imageUrl", "imageData", "title", "description", "keywords", "city",
               "country", "latitude", "longitude", "altitude"}

\* hasNewFormat (V1 and V3)
HasNewFormat(b) ==
    \/ Truthy(b.title)
    \/ Truthy(b.description)
    \/ (Truthy(b.keywords) /\ JSLength(b.keywords) > 0)
    \/ Truthy(b.city)
    \/ Truthy(b.country)
    \/ b.latitude.t # "undefined"
    \/ b.longitude.t # "undefined"

\* hasLegacyFormat (V1 and V3): exifData && Object.keys(exifData).length > 0
HasLegacyFormat(b) == b.exifData.defined /\ Cardinality(b.exifData.keys) > 0

\* fault: the validation also rejects a structured coordinate given alone
ValidationErrorStrict(v, b) ==
    IF v = "V2"
    THEN (IF ~Truthy(b.imageUrl) THEN "imageUrl is required"
          ELSE IF ~b.exifData.defined \/ Cardinality(b.exifData.keys) = 0
               THEN "exifData is required with at least one field"
          ELSE "")
    ELSE (IF ~Truthy(b.imageUrl) /\ ~Truthy(b.imageData)
          THEN "Either imageUrl or imageData (base64) is required"
          ELSE IF ~HasNewFormat(b) /\ ~HasLegacyFormat(b)
               THEN "At least one metadata field is required"
          ELSE IF (b.latitude.t # "undefined") # (b.longitude.t # "undefined")
               THEN "latitude and longitude are required together"
          ELSE "")

\* Which validation rejects the request, "" when none does
ValidationError(v, b) ==
    IF v = "V2"
    THEN (IF ~Truthy(b.imageUrl) THEN "imageUrl is required"
          ELSE IF ~b.exifData.defined \/ Cardinality(b.exifData.keys) = 0
               THEN "exifData is required with at least one field"
          ELSE "")
    ELSE (IF ~Truthy(b.imageUrl) /\ ~Truthy(b.imageData)
          THEN "Either imageUrl or imageData (base64) is required"
          ELSE IF ~HasNewFormat(b) /\ ~HasLegacyFormat(b)
               THEN "At least one metadata field is required"
          ELSE "")

\* keywords.map(k => String(k).trim()).filter(k => k.length > 0)
NormalizeList(l) == FilterNonEmpty(MapTrim(l))

\* keywords.split(',').map(k => String(k).trim()).filter(k => k.length > 0)
NormalizeString(s) == FilterNonEmpty(MapTrim(Split(s)))

\* The structured keywords as V1 and V3 normalize them:
\* used says whether a branch was taken, list is the normalized list
StructuredKeywords(b) ==
    IF Truthy(b.keywords) /\ b.keywords.t = "array" /\ Len(b.keywords.l) > 0
    THEN [used |-> TRUE, isArray |-> TRUE, list |-> NormalizeList(b.keywords.l)]
    ELSE IF Truthy(b.keywords) /\ IsString(b.keywords)
    THEN [used |-> TRUE, isArray |-> FALSE, list |-> NormalizeString(b.keywords.s)]
    ELSE [used |-> FALSE, isArray |-> FALSE, list |-> <<>>]

\* The legacy keywords as V1 and V3 normalize them (exifData.keywords && !keywords)
LegacyKeywords(b) ==
    LET k == b.exifData.v["keywords"]
    IN  IF IsString(k) THEN NormalizeString(k.s)
        ELSE IF k.t = "array" THEN NormalizeList(k.l)
        ELSE <<>>

LegacyDescriptionUsed(b) ==
    HasLegacyFormat(b) /\ Truthy(b.exifData.v["description"]) /\ ~Truthy(b.description)

LegacyKeywordsUsed(b) ==
    HasLegacyFormat(b) /\ Truthy(b.exifData.v["keywords"]) /\ ~Truthy(b.keywords)

When(cond, w) == IF cond THEN w ELSE <<>>

\* Buffer.concat([Buffer.from([0x01, 0x00]), Buffer.from(str, 'utf8')])
encodeUTF8String(str) == <<"0x01", "0x00">> \o str

LocationPrefix == <<"L", "o", "c", "a", "t", "i", "o", "n", ":", " ">>
KeywordsPrefix == <<"K", "e", "y", "w", "o", "r", "d", "s", ":", " ">>

\* [city, country].filter(Boolean).join(', ')
LocationText(b) ==
    LET parts == SelectSeq(<<b.city, b.country>>, Truthy)
    IN  Join([i \in 1..Len(parts) |-> JSString(parts[i])], CommaSpace)

----------------------------------------------------------------------------
(* V1, lines 88-185: the text fields.  Every assignment to exifObj here     *)
(* runs before `let exifObj` (line 192) has been initialized.               *)

\* the assignments to exifObj the text block makes; a later assignment to
\* the same tag wins, so the later blocks of the source stand first here
V1TextWrites(b) ==
    LET kw == StructuredKeywords(b)
        keywordsStr == Join(kw.list, CommaSpace)
    IN  When(LegacyKeywordsUsed(b) /\ Len(LegacyKeywords(b)) > 0,
             DocumentName :> Join(LegacyKeywords(b), CommaSpace))
        @@ When(LegacyDescriptionUsed(b),
                ImageDescription :> JSString(b.exifData.v["description"]))
        @@ When(HasNewFormat(b),
             When((Truthy(b.city) \/ Truthy(b.country)) /\ Len(LocationText(b)) > 0,
                  UserComment :> encodeUTF8String(LocationPrefix \o LocationText(b)))
             @@ When(Len(keywordsStr) > 0 /\ ~Truthy(b.title), DocumentName :> keywordsStr)
             @@ When(Truthy(b.description), ImageDescription :> JSString(b.description))
             @@ When(Truthy(b.title), DocumentName :> JSString(b.title)))

\* exifToolTags of V1
V1Tags(b) ==
    LET kw == StructuredKeywords(b)
        keywordsStr == Join(kw.list, CommaSpace)
        \* line 124: the joined string is split and normalized again
        keywordsArray == IF kw.isArray THEN kw.list ELSE NormalizeString(keywordsStr)
        kwLegacy == Join(LegacyKeywords(b), CommaSpace)
    IN  When(HasNewFormat(b),
             When(Truthy(b.title),
                  ("XMP-dc:Title" :> JSString(b.title))
                  @@ ("IPTC:ObjectName" :> JSString(b.title)))
             @@ When(Truthy(b.description),
                  ("XMP-dc:Description" :> JSString(b.description))
                  @@ ("IPTC:Caption-Abstract" :> JSString(b.description)))
             @@ When(kw.used /\ (kw.isArray \/ Len(keywordsArray) > 0),
                  ("XMP-dc:Subject" :> keywordsArray)
                  @@ ("IPTC:Keywords" :> keywordsArray))
             @@ When(Truthy(b.city),
                  ("XMP-photoshop:City" :> JSString(b.city))
                  @@ ("IPTC:City" :> JSString(b.city)))
             @@ When(Truthy(b.country),
                  ("XMP-photoshop:Country" :> JSString(b.country))
                  @@ ("IPTC:Country-PrimaryLocationName" :> JSString(b.country))))
        @@ When(LegacyDescriptionUsed(b),
                ("XMP-dc:Description" :> JSString(b.exifData.v["description"]))
                @@ ("IPTC:Caption-Abstract" :> JSString(b.exifData.v["description"])))
        @@ When(LegacyKeywordsUsed(b) /\ Len(kwLegacy) > 0,
                ("XMP-dc:Subject" :> NormalizeString(kwLegacy))
                @@ ("IPTC:Keywords" :> NormalizeString(kwLegacy)))

\* exifToolTags of V3, lines 657-722
V3Tags(b) ==
    LET kw == StructuredKeywords(b)
    IN  When(HasNewFormat(b),
             When(Truthy(b.title),
                  ("XMP:Title" :> JSString(b.title))
                  @@ ("IPTC:ObjectName" :> JSString(b.title)))
             @@ When(Truthy(b.description),
                  ("XMP:Description" :> JSString(b.description))
                  @@ ("IPTC:Caption-Abstract" :> JSString(b.description)))
             @@ When(kw.used /\ (kw.isArray \/ Len(kw.list) > 0),
                  ("XMP:Subject" :> kw.list) @@ ("IPTC:Keywords" :> kw.list))
             @@ When(Truthy(b.city),
                  ("XMP:City" :> JSString(b.city)) @@ ("IPTC:City" :> JSString(b.city)))
             @@ When(Truthy(b.country),
                  ("XMP:Country" :> JSString(b.country))
                  @@ ("IPTC:Country-PrimaryLocationName" :> JSString(b.country))))
        @@ When(LegacyDescriptionUsed(b),
                ("XMP:Description" :> JSString(b.exifData.v["description"]))
                @@ ("IPTC:Caption-Abstract" :> JSString(b.exifData.v["description"])))
        @@ When(LegacyKeywordsUsed(b) /\ Len(LegacyKeywords(b)) > 0,
                ("XMP:Subject" :> LegacyKeywords(b))
                @@ ("IPTC:Keywords" :> LegacyKeywords(b)))

\* fault: each coordinate is taken from the structured field when given,
\* else from the legacy field
StructuredGPSWritesMixed(b) ==
    LET e == b.exifData.v
        lat == IF b.latitude.t # "undefined" THEN b.latitude ELSE e["latitude"]
        lon == IF b.longitude.t # "undefined" THEN b.longitude ELSE e["longitude"]
        alt == IF b.altitude.t # "undefined" THEN b.altitude ELSE e["altitude"]
    IN  GPSWrites(lat.t # "undefined", parseFloat(lat), lon.t # "undefined", parseFloat(lon),
                  alt.t # "undefined", parseFloat(alt))

\* Determine GPS coordinates (V1 lines 203-232, V3 lines 738-767): the
\* structured pair when either structured coordinate is given, else the
\* legacy pair when both legacy coordinates are given
StructuredGPSWrites(b) ==
    LET e == b.exifData.v
    IN  IF HasNewFormat(b) /\ (b.latitude.t # "undefined" \/ b.longitude.t # "undefined")
        THEN GPSWrites(b.latitude.t # "undefined", parseFloat(b.latitude),
                       b.longitude.t # "undefined", parseFloat(b.longitude),
                       b.altitude.t # "undefined", parseFloat(b.altitude))
        ELSE IF HasLegacyFormat(b) /\ e["latitude"].t # "undefined"
                /\ e["longitude"].t # "undefined"
        THEN GPSWrites(TRUE, parseFloat(e["latitude"]), TRUE, parseFloat(e["longitude"]),
                       e["altitude"].t # "undefined", parseFloat(e["altitude"]))
        ELSE NoWrites

----------------------------------------------------------------------------
(* V2, lines 438-538: the legacy handler applies exifData to the loaded     *)
(* container.                                                               *)

\* fault: a year outside the range is clamped into it
DateYearClamped(v) ==
    IF v.t = "datestring"
    THEN [nan |-> FALSE, d |-> 1,
          n |-> IF v.n < 1900 THEN 1900 ELSE IF v.n > 2100 THEN 2100 ELSE v.n]
    ELSE NaN

\* new Date(v).getFullYear(): the year of a date string, NaN for anything else
DateYear(v) == IF v.t = "datestring" THEN [nan |-> FALSE, n |-> v.n, d |-> 1] ELSE NaN

MinYear == 1900
MaxYear == 2100

\* `${year}:${month}:${day} ${hours}:${minutes}:${seconds}`, the date kept by its year
FormatDate(year) == <<year, ":", "M", "M", ":", "D", "D", " ", "h", "h", ":", "m", "m", ":", "s", "s">>

\* UTF-16LE with BOM and terminator, lines 467-477
EncodeUTF16LE(str) ==
    <<"0xFF", "0xFE">>
    \o [i \in 1..(2 * Len(str)) |-> IF i % 2 = 1 THEN str[(i + 1) \div 2] ELSE "0x00"]
    \o <<"0x00", "0x00">>

\* the assignments of the legacy handler; a later assignment to the same tag
\* wins, so the later blocks of the source stand first here
V2Writes(b) ==
    LET e == b.exifData.v
        year == DateYear(e["datetime"])
        keywords == JSString(e["keywords"])
    IN  When(e["latitude"].t # "undefined" /\ e["longitude"].t # "undefined",
             GPSWrites(TRUE, parseFloat(e["latitude"]), TRUE, parseFloat(e["longitude"]),
                       e["altitude"].t # "undefined", parseFloat(e["altitude"])))
        @@ When(Truthy(e["datetime"]) /\ ~year.nan /\ year.n >= MinYear /\ year.n <= MaxYear,
                (DateTime :> FormatDate(year.n)) @@ (DateTimeOriginal :> FormatDate(year.n)))
        @@ When(Truthy(e["copyright"]), Copyright :> JSString(e["copyright"]))
        @@ When(Truthy(e["model"]), Model :> JSString(e["model"]))
        @@ When(Truthy(e["make"]), Make :> JSString(e["make"]))
        @@ When(Truthy(e["keywords"]),
                (UserComment :> encodeUTF8String(KeywordsPrefix \o keywords))
                @@ (DocumentName :> keywords)
                @@ (XPKeywords :> EncodeUTF16LE(keywords)))
        @@ When(Truthy(e["description"]),
                (ImageDescription :> JSString(e["description"]))
                @@ (UserComment :> encodeUTF8String(JSString(e["description"]))))

----------------------------------------------------------------------------
(* Browser, src/app.js.  The form fields are the strings of the inputs.     *)

formFields == {"description", "keywords", "latitude", "longitude", "altitude",
               "make", "model", "datetime", "copyright"}

\* document.getElementById(id).value.trim()
FieldText(f, id) == Trim(f[id].s)

\* collectFormData, lines 322-419: the EXIF object built from the form
collectFormData(f) ==
    LET lat == parseFloat(f["latitude"])
        lon == parseFloat(f["longitude"])
        altitude == parseFloat(f["altitude"])
        year == DateYear(f["datetime"])
    IN  When(Len(FieldText(f, "description")) > 0,
             ImageDescription :> FieldText(f, "description"))
        @@ When(Len(FieldText(f, "keywords")) > 0,
                DocumentName :> Join(MapTrim(Split(FieldText(f, "keywords"))), CommaSpace))
        @@ When(Len(FieldText(f, "latitude")) > 0 /\ Len(FieldText(f, "longitude")) > 0
                /\ CoordsUsable(lat, lon),
                FourGPSTags(lat, lon, TRUE)
                @@ When(~altitude.nan /\ altitude.n # 0, AltitudeTags(altitude)))
        @@ When(Len(FieldText(f, "make")) > 0, Make :> FieldText(f, "make"))
        @@ When(Len(FieldText(f, "model")) > 0, Model :> FieldText(f, "model"))
        @@ When(Len(FieldText(f, "datetime")) > 0
                /\ ~year.nan /\ year.n >= MinYear /\ year.n <= MaxYear,
                (DateTime :> FormatDate(year.n)) @@ (DateTimeOriginal :> FormatDate(year.n)))
        @@ When(Len(FieldText(f, "copyright")) > 0, Copyright :> FieldText(f, "copyright"))

\* the tags writeExifData copies from newExif into its fresh exifObj, lines 440-496
CopiedTags == {ImageDescription, Make, Model, Copyright, DateTime, DocumentName,
               DateTimeOriginal, GPSLatitude, GPSLatitudeRef, GPSLongitude,
               GPSLongitudeRef, GPSAltitude, GPSAltitudeRef}

\* the truthiness test writeExifData makes before it copies a tag
Copyable(k, val) ==
    IF k = GPSAltitudeRef THEN val \in {0, 1} ELSE Len(val) > 0

\* writeExifData, lines 440-496: the fresh container with the copied tags
FreshExifFrom(newExif) ==
    LET keep == {k \in DOMAIN newExif : k \in CopiedTags /\ Copyable(k, newExif[k])}
    IN  [k \in keep |-> newExif[k]]

\* fault: the check of the coordinate pair is missing
OneCoordinateUnchecked(f) == FALSE

\* the save button's check: exactly one of latitude / longitude filled
OneCoordinateFilled(f) ==
    (Len(FieldText(f, "latitude")) > 0) # (Len(FieldText(f, "longitude")) > 0)

----------------------------------------------------------------------------
(* The inputs the model draws requests and forms from *)

ImageUrl == Str(<<"h", "t", "t", "p">>)
ImageDataUrl == Str(<<"d", "a", "t", "a">>)

Titles == {Undef, Str(<<"T">>)}
Descriptions == {Undef, Str(<<"D">>)}
Cities == {Undef, Str(<<"C">>)}
Countries == {Undef, Str(<<"K">>)}

KwBlank == <<" ", ",", " ">>
KwGaps == <<"a", ",", ",", "b">>
KwSpaced == <<"a", ",", " ", "b", " ">>
KeywordInputs ==
    {Undef, Str(KwBlank), Str(KwGaps), Str(KwSpaced),
     List(<<<<"a">>, <<" ", "b">>>>), List(<<<<"a">>, <<>>, <<"b">>>>),
     List(<<<<" ">>>>), List(<<>>)}

\* 40.7128 and -74.0060 as fractions in lowest terms
LatOk == Num(50891, 1250)
LonOk == Num(0 - 37003, 500)
LatitudeInputs == {Undef, Null, LatOk, Num(0 - 91, 1), Str(<<"x">>)}
LongitudeInputs == {Undef, Null, LonOk, Num(181, 1), Str(<<"x">>)}
AltitudeInputs == {Undef, Num(0 - 5, 2)}

BlankBody ==
    [imageUrl |-> ImageUrl, imageData |-> Undef, title |-> Undef, description |-> Undef,
     keywords |-> Undef, city |-> Undef, country |-> Undef, latitude |-> Undef,
     longitude |-> Undef, altitude |-> Undef, exifData |-> NoObj]

\* structured text fields, with or without a usable coordinate pair
TextBodies ==
    {[BlankBody EXCEPT !.title = t, !.description = d, !.keywords = k, !.city = c,
                       !.country = n, !.latitude = g[1], !.longitude = g[2]] :
        t \in Titles, d \in Descriptions, k \in KeywordInputs, c \in Cities,
        n \in Countries, g \in {<<Undef, Undef>>, <<LatOk, LonOk>>}}

LegacyPair == Obj(("latitude" :> Num(1, 2)) @@ ("longitude" :> Num(3, 2)))
LegacyLatOnly == Obj("latitude" :> Num(1, 2))

\* structured coordinates of every kind, with or without legacy coordinates
GpsBodies ==
    {[BlankBody EXCEPT !.latitude = la, !.longitude = lo, !.altitude = al,
                       !.description = d, !.exifData = e] :
        la \in LatitudeInputs, lo \in LongitudeInputs, al \in AltitudeInputs,
        d \in Descriptions, e \in {NoObj, LegacyPair, LegacyLatOnly}}

NoFields == <<>>
LegacyDescriptions == {NoFields, "description" :> Str(<<"L">>)}
LegacyKeywordInputs == {NoFields, "keywords" :> Str(KwGaps),
                        "keywords" :> List(<<<<"a">>, <<" ", "b">>>>)}
LegacyCameras == {NoFields, ("make" :> Str(<<"M">>)) @@ ("model" :> Str(<<"O">>))
                             @@ ("copyright" :> Str(<<"R">>))}
LegacyDates == {NoFields, "datetime" :> DateStr(2025), "datetime" :> DateStr(1800),
                "datetime" :> Str(<<"x">>)}
LegacyCoordinates ==
    {NoFields,
     ("latitude" :> LatOk) @@ ("longitude" :> LonOk) @@ ("altitude" :> Num(100, 1)),
     "latitude" :> LatOk,
     ("latitude" :> Num(91, 1)) @@ ("longitude" :> LonOk)}

LegacyObjects ==
    {Obj(d @@ k @@ c @@ t @@ g) :
        d \in LegacyDescriptions, k \in LegacyKeywordInputs, c \in LegacyCameras,
        t \in LegacyDates, g \in LegacyCoordinates}
    \cup {Obj("foo" :> Str(<<"x">>))}

\* legacy objects, alone or beside one structured field
LegacyBodies ==
    {[BlankBody EXCEPT !.exifData = e, !.description = s[1], !.keywords = s[2],
                       !.latitude = s[3]] :
        e \in LegacyObjects,
        s \in {<<Undef, Undef, Undef>>, <<Str(<<"D">>), Undef, Undef>>,
               <<Undef, List(<<>>), Undef>>, <<Undef, Undef, Null>>,
               <<Str(<<"D">>), List(<<>>), Undef>>, <<Str(<<"D">>), Str(KwBlank), Undef>>}}

\* the image source: none, inline data, or both
SourceBodies ==
    {[b EXCEPT !.imageUrl = u[1], !.imageData = u[2]] :
        b \in {BlankBody, [BlankBody EXCEPT !.description = Str(<<"D">>)],
               [BlankBody EXCEPT !.latitude = LatOk, !.longitude = LonOk],
               [BlankBody EXCEPT !.exifData = LegacyPair]},
        u \in {<<Undef, Undef>>, <<Undef, ImageDataUrl>>, <<ImageUrl, ImageDataUrl>>}}

Bodies == TextBodies \cup GpsBodies \cup LegacyBodies \cup SourceBodies

Methods == {"POST", "OPTIONS", "GET"}
Variants == {"V1", "V2", "V3"}

BlankForm == [id \in formFields |-> Str(<<>>)]

FormKeywordInputs == {Str(<<>>), Str(KwGaps), Str(KwSpaced), Str(KwBlank)}
FormLatitudes == {Str(<<>>), NumStr(50891, 1250), NumStr(91, 1), Str(<<"x">>)}
FormLongitudes == {Str(<<>>), NumStr(0 - 37003, 500), NumStr(181, 1)}
FormAltitudes == {Str(<<>>), NumStr(0, 1), NumStr(0 - 5, 2)}
FormDates == {Str(<<>>), DateStr(2025), DateStr(2101), Str(<<"x">>)}

Forms ==
    {[BlankForm EXCEPT !["description"] = d, !["keywords"] = k, !["latitude"] = la,
                       !["longitude"] = lo, !["altitude"] = al, !["make"] = c,
                       !["model"] = c, !["copyright"] = c, !["datetime"] = t] :
        d \in {Str(<<>>), Str(<<" ", "D", " ">>)}, k \in FormKeywordInputs,
        la \in FormLatitudes, lo \in FormLongitudes, al \in FormAltitudes,
        c \in {Str(<<>>), Str(<<"M">>)}, t \in FormDates}

\* currentImageData: null, or the data URL of the loaded image
NoImageData == [loaded |-> FALSE, image |-> NoBuffer]
DataUrl(img) == [loaded |-> TRUE, image |-> img]
LoadedImages == {NoImageData, DataUrl(JpegWithExif), DataUrl(JpegPlain), DataUrl(PngImage)}

----------------------------------------------------------------------------
(* The coordinate codec: convertDDToDMS as each of the three files defines  *)
(* it, and convertDMSToDD of src/app.js.                                    *)

SecDenominatorTest == 100

CodecFiles == {"api/edit-exif.js", "app.js", "test-exif-edit.js"}

\* the seconds denominator of the file's convertDDToDMS
SecDenominatorOf(file) ==
    IF file = "api/edit-exif.js" THEN SecDenominator
    ELSE IF file = "app.js" THEN SecDenominatorBrowser
    ELSE SecDenominatorTest

\* src/test-exif-edit.js
convertDDToDMSTest(v, lat) == DDToDMS(v, lat, SecDenominatorTest)

\* fault: the reference is ignored, the result is never negated
convertDMSToDDUnsigned(dms, ref) ==
    [neg |-> FALSE,
     whole |-> dms[1][1] \div dms[1][2],
     num |-> (dms[1][1] % dms[1][2]) * 3600 * dms[2][2] * dms[3][2]
             + dms[2][1] * 60 * dms[1][2] * dms[3][2]
             + dms[3][1] * dms[1][2] * dms[2][2],
     den |-> 3600 * dms[1][2] * dms[2][2] * dms[3][2]]

\* convertDMSToDD(dms, ref): dms[0] + dms[1]/60 + dms[2]/(60*60), negated for
\* "S" and "W".  The result is kept as whole + num/den with sign neg.
convertDMSToDD(dms, ref) ==
    LET deg == dms[1]
        min == dms[2]
        sec == dms[3]
    IN  [neg |-> ref \in {<<"S">>, <<"W">>},
         whole |-> deg[1] \div deg[2],
         num |-> (deg[1] % deg[2]) * 3600 * min[2] * sec[2]
                 + min[1] * 60 * deg[2] * sec[2]
                 + sec[1] * deg[2] * min[2],
         den |-> 3600 * deg[2] * min[2] * sec[2]]

\* the decimal degrees of the calls: whole degrees w and a fraction f/q, signed
Degrees ==
    {[nan |-> FALSE, n |-> s * (w * q + f), d |-> q] :
        s \in {0 - 1, 1}, w \in {0, 40, 89, 179}, q \in {1, 7, 11, 59},
        f \in {0, 1, 5, 58}}
    \cup {[nan |-> FALSE, n |-> m, d |-> 1] : m \in {0 - 180, 0 - 90, 90, 180}}

\* a latitude lies in [-90, 90], a longitude in [-180, 180]
ValidDegrees(lat) ==
    {v \in Degrees : Abs(v.n) <= (IF lat THEN 90 ELSE 180) * v.d}

NoDMS == <<<<<<0, 1>>, <<0, 1>>, <<0, 1>>>>, <<>>>>
NoDD == [neg |-> FALSE, whole |-> 0, num |-> 0, den |-> 1]

CodecOff ==
    /\ codecPc = "off"
    /\ codecFile = "none"
    /\ ddArg = [nan |-> FALSE, n |-> 0, d |-> 1]
    /\ isLatArg = TRUE
    /\ dmsResult = NoDMS
    /\ restored = NoDD

Requests == {1, 2}

NoPath == <<>>

PoolOff ==
    /\ poolHandler = "none"
    /\ now = 0
    /\ inflight = [r \in Requests |-> "off"]
    /\ tempInput = [r \in Requests |-> NoPath]
    /\ tmpdir = <<>>
    /\ readBack = [r \in Requests |-> 0]

Loads == {1, 2}

\* a load that has not been started
NoLoad == [at |-> "unstarted", source |-> "", image |-> NoBuffer, overlaps |-> FALSE]

NoArea == [called |-> FALSE, left |-> 0, top |-> 0, width |-> 0, height |-> 0]
NoMetadata == [width |-> 0, height |-> 0]
NoCropOptions == [given |-> FALSE, top |-> Undef, bottom |-> Undef, left |-> Undef,
                  right |-> Undef]
NoCropRequest == [method |-> "", source |-> "none", cropOptions |-> NoCropOptions]

CropOff ==
    /\ cropPc = "off"
    /\ cropReq = NoCropRequest
    /\ metadata = NoMetadata
    /\ extractArea = NoArea
    /\ cropRes = [status |-> 0, error |-> ""]

LoadsOff ==
    /\ loading = [l \in Loads |-> NoLoad]
    /\ originalImageFormat = ""

handlerVars == <<variant, pc, req, res, imageBuffer, ops, loadedExif, exifObj, written,
                 exifToolTags, imageBufferWithExif, finalImageBuffer, tempFile,
                 exiftool, exifToolError, form, currentImageData, previewImg>>

notCodecVars == <<handlerVars, poolVars, cropVars, loadVars>>
notPoolVars == <<handlerVars, codecVars, cropVars, loadVars>>
notCropVars == <<handlerVars, codecVars, poolVars, loadVars>>
notLoadVars == <<variant, pc, req, res, imageBuffer, ops, loadedExif, exifObj, written,
                 exifToolTags, imageBufferWithExif, finalImageBuffer, tempFile,
                 exiftool, exifToolError, form, codecVars, poolVars, cropVars>>

----------------------------------------------------------------------------
(* State *)

NoRequest == [method |-> "", body |-> [BlankBody EXCEPT !.imageUrl = Undef]]
\* message, details and stack are the further fields of a JSON body: a text is
\* the sequence of its parts, a stack the sequence of its frames' locations
NoResponse ==
    [status |-> 0, kind |-> "none", error |-> "", body |-> NoBuffer,
     message |-> <<>>, details |-> <<>>, stack |-> <<>>]
\* stuck: an unlinkSync of the file threw
NoFile == [exists |-> FALSE, content |-> NoBuffer, stuck |-> FALSE]

\* res.status(code).json({ error: msg })
JsonError(code, msg) == [NoResponse EXCEPT !.status = code, !.kind = "json", !.error = msg]

\* res.status(200).send(buffer)
ImageResponse(buf) == [NoResponse EXCEPT !.status = 200, !.kind = "image", !.body = buf]

\* where the deployment keeps the handler's module, the piexifjs module and
\* the temp file of the secondary pass
HandlerModule == "/var/task/api/edit-exif.js"
PiexifModule == "/var/task/node_modules/piexifjs/piexif.js"
TempFilePath == "/tmp/exif-input.jpg"
InternalPaths == {HandlerModule, PiexifModule, TempFilePath}

\* The errors that reach the outer catch.  error.stack names the module of
\* every frame, the handler's own frame included.
FetchFailed ==
    [name |-> "TypeError", message |-> <<"fetch failed">>,
     stack |-> <<"node:internal/deps/undici/undici", HandlerModule>>]
NotInitialized ==
    [name |-> "ReferenceError",
     message |-> <<"Cannot access 'exifObj' before initialization">>,
     stack |-> <<HandlerModule>>]
DumpFailed ==
    [name |-> "Error", message |-> <<"'pack' error. Got invalid type argument.">>,
     stack |-> <<PiexifModule, HandlerModule>>]

\* process.env.NODE_ENV
NodeEnvs == {"production", "development"}

\* fault: the catch answers with the bytes it was given
InternalErrorSendsOriginal(v, error, env) == ImageResponse(imageBuffer)

\* the outer catch: res.status(500).json({ error: 'Failed to process image',
\* message: error.message, ... }); V1 adds details: error.toString(), V1 and
\* V3 add stack: error.stack when NODE_ENV is 'development'
InternalError(v, error, env) ==
    [JsonError(500, "Failed to process image") EXCEPT
        !.message = error.message,
        !.details = IF v = "V1" THEN <<error.name, ": ">> \o error.message ELSE <<>>,
        !.stack = IF v \in {"V1", "V3"} /\ env = "development"
                  THEN error.stack ELSE <<>>]

\* no request has reached a handler and the page holds no image
HandlerIdle ==
    /\ variant = "none"
    /\ pc = "idle"
    /\ req = NoRequest
    /\ res = NoResponse
    /\ imageBuffer = NoBuffer
    /\ ops = {}
    /\ loadedExif = EmptyExif
    /\ exifObj = EmptyExif
    /\ written = {}
    /\ exifToolTags = NoTags
    /\ imageBufferWithExif = NoBuffer
    /\ finalImageBuffer = NoBuffer
    /\ tempFile = NoFile
    /\ exiftool = "none"
    /\ exifToolError = ""
    /\ form = BlankForm
    /\ currentImageData = NoImageData
    /\ previewImg = NoImageData

Init == HandlerIdle /\ CodecOff /\ PoolOff /\ CropOff /\ LoadsOff

mergeVars == <<loadedExif, exifObj, written, exifToolTags, imageBufferWithExif>>
toolVars == <<finalImageBuffer, tempFile, exiftool, exifToolError>>
browserVars == <<form, currentImageData, previewImg>>

\* fault: after responding the handler starts over
FinishStartsOver(r) == res' = r /\ pc' = "received"

\* the handler returns with response r
Finish(r) == res' = r /\ pc' = "done"

----------------------------------------------------------------------------
(* The server embed handler, step by step *)

\* a request reaches one of the handler variants
Receive(v, m, b) ==
    /\ pc = "idle"
    /\ variant' = v
    /\ req' = [method |-> m, body |-> b]
    /\ pc' = "received"
    /\ UNCHANGED <<res, imageBuffer, ops, mergeVars, toolVars, browserVars>>
    /\ UNCHANGED sideVars

\* if (req.method === 'OPTIONS') return res.status(200).end()
Preflight ==
    /\ pc = "received"
    /\ req.method = "OPTIONS"
    /\ Finish([NoResponse EXCEPT !.status = 200, !.kind = "end"])
    /\ UNCHANGED <<variant, req, imageBuffer, ops, mergeVars, toolVars, browserVars>>
    /\ UNCHANGED sideVars

\* if (req.method !== 'POST') return res.status(405)...
MethodNotAllowed ==
    /\ pc = "received"
    /\ req.method \notin {"OPTIONS", "POST"}
    /\ Finish(JsonError(405, "Method not allowed. Use POST."))
    /\ UNCHANGED <<variant, req, imageBuffer, ops, mergeVars, toolVars, browserVars>>
    /\ UNCHANGED sideVars

\* fault: the image is fetched before the request is validated
ValidateAfterFetch ==
    /\ pc = "received"
    /\ req.method = "POST"
    /\ LET err == ValidationError(variant, req.body)
       IN  IF err # ""
           THEN Finish(JsonError(400, err))
           ELSE pc' = "validated" /\ UNCHANGED res
    /\ ops' = ops \cup {"fetch"}
    /\ UNCHANGED <<variant, req, imageBuffer, mergeVars, toolVars, browserVars>>
    /\ UNCHANGED sideVars

\* the two validations at the head of the try block
Validate ==
    /\ pc = "received"
    /\ req.method = "POST"
    /\ LET err == ValidationError(variant, req.body)
       IN  IF err # ""
           THEN Finish(JsonError(400, err))
           ELSE pc' = "validated" /\ UNCHANGED res
    /\ UNCHANGED <<variant, req, imageBuffer, ops, mergeVars, toolVars, browserVars>>
    /\ UNCHANGED sideVars

\* the handler reads the image from the URL (V2: always; V1, V3: when imageUrl is set)
UsesFetch == variant = "V2" \/ Truthy(req.body.imageUrl)

\* await fetch(imageUrl) or await imageResponse.arrayBuffer() rejects: outer catch
FetchRejects ==
    /\ pc = "validated"
    /\ UsesFetch
    /\ ops' = ops \cup {"fetch"}
    /\ \E env \in NodeEnvs : Finish(InternalError(variant, FetchFailed, env))
    /\ UNCHANGED <<variant, req, imageBuffer, mergeVars, toolVars, browserVars>>
    /\ UNCHANGED sideVars

\* if (!imageResponse.ok) return res.status(400)...
FetchNotOk ==
    /\ pc = "validated"
    /\ UsesFetch
    /\ ops' = ops \cup {"fetch"}
    /\ Finish(JsonError(400, "Failed to fetch image"))
    /\ UNCHANGED <<variant, req, imageBuffer, mergeVars, toolVars, browserVars>>
    /\ UNCHANGED sideVars

\* the fetch answers with the bytes img
FetchOk(img) ==
    /\ pc = "validated"
    /\ UsesFetch
    /\ ops' = ops \cup {"fetch"}
    /\ imageBuffer' = img
    /\ pc' = "loaded"
    /\ UNCHANGED <<variant, req, res, mergeVars, toolVars, browserVars>>
    /\ UNCHANGED sideVars

\* Buffer.from(base64, 'base64'): never throws, img is whatever the text decodes to
Decode(img) ==
    /\ pc = "validated"
    /\ ~UsesFetch
    /\ ops' = ops \cup {"decode"}
    /\ imageBuffer' = img
    /\ pc' = "loaded"
    /\ UNCHANGED <<variant, req, res, mergeVars, toolVars, browserVars>>
    /\ UNCHANGED sideVars

\* Verify it's a JPEG
RejectFormat ==
    /\ pc = "loaded"
    /\ ~IsJPEG(imageBuffer)
    /\ Finish(JsonError(400, "Only JPEG images are supported"))
    /\ UNCHANGED <<variant, req, imageBuffer, ops, mergeVars, toolVars, browserVars>>
    /\ UNCHANGED sideVars

\* V1 only: an assignment to exifObj before its `let` raises a ReferenceError,
\* which the outer catch answers with 500
TextWriteThrows ==
    /\ pc = "loaded"
    /\ IsJPEG(imageBuffer)
    /\ variant = "V1"
    /\ DOMAIN V1TextWrites(req.body) # {}
    /\ \E env \in NodeEnvs : Finish(InternalError(variant, NotInitialized, env))
    /\ UNCHANGED <<variant, req, imageBuffer, ops, mergeVars, toolVars, browserVars>>
    /\ UNCHANGED sideVars

\* what the merge assigns in the loaded container
MergeWrites(v, b) ==
    IF v = "V2" THEN V2Writes(b) ELSE StructuredGPSWrites(b)

\* the tag mapping for ExifTool
ToolTags(v, b) ==
    CASE v = "V1" -> V1Tags(b)
      [] v = "V3" -> V3Tags(b)
      [] OTHER -> NoTags

\* the text block of the variant does not throw
TextBlockPasses == variant = "V1" => DOMAIN V1TextWrites(req.body) = {}

\* load, merge, dump and insert; piexif.dump or piexif.insert may throw
Merge(dumpOk) ==
    /\ pc = "loaded"
    /\ IsJPEG(imageBuffer)
    /\ TextBlockPasses
    /\ LET loaded == LoadExif(imageBuffer)
           w == MergeWrites(variant, req.body)
           merged == PutAll(loaded, w)
       IN  /\ loadedExif' = loaded
           /\ exifObj' = merged
           /\ written' = DOMAIN w
           /\ exifToolTags' = ToolTags(variant, req.body)
           /\ IF dumpOk
              THEN /\ imageBufferWithExif' = InsertExif(merged, imageBuffer)
                   /\ finalImageBuffer' = InsertExif(merged, imageBuffer)
                   /\ ops' = ops \cup {"load", "dump", "insert"}
                   /\ pc' = "merged"
                   /\ UNCHANGED res
              ELSE /\ ops' = ops \cup {"load", "dump"}
                   /\ \E env \in NodeEnvs :
                          Finish(InternalError(variant, DumpFailed, env))
                   /\ UNCHANGED <<imageBufferWithExif, finalImageBuffer>>
    /\ UNCHANGED <<variant, req, imageBuffer, tempFile, exiftool, exifToolError,
                   browserVars>>
    /\ UNCHANGED sideVars

----------------------------------------------------------------------------
(* The secondary (ExifTool) pass of V1 (lines 250-323) and V3 (782-819) *)

HasSecondaryPass == variant \in {"V1", "V3"} /\ DOMAIN exifToolTags # {}

\* a file holding buf, or what is left of it after a failed write
WrittenFile(buf, complete) ==
    [exists |-> TRUE, content |-> [buf EXCEPT !.whole = complete], stuck |-> FALSE]

\* fault: the catch returns what is in the temp file
FallbackReadsFile(step, file, unlinkOk) ==
    /\ exifToolError' = step
    /\ finalImageBuffer' = file.content
    /\ tempFile' = IF variant = "V1" /\ file.exists
                   THEN (IF unlinkOk THEN NoFile ELSE [file EXCEPT !.stuck = TRUE])
                   ELSE file
    /\ pc' = "enriched"

\* The catch of the pass: the EXIF-only buffer is the result.  V1 removes the
\* temp file when it exists (unlinkOk: the unlink did not throw); V3 has no
\* cleanup in its catch.
Fallback(step, file, unlinkOk) ==
    /\ exifToolError' = step
    /\ finalImageBuffer' = imageBufferWithExif
    /\ tempFile' = IF variant = "V1" /\ file.exists
                   THEN (IF unlinkOk THEN NoFile ELSE [file EXCEPT !.stuck = TRUE])
                   ELSE file
    /\ pc' = "enriched"

\* no tags for ExifTool: the pass is skipped
SecondarySkip ==
    /\ pc = "merged"
    /\ variant \in {"V1", "V3"}
    /\ DOMAIN exifToolTags = {}
    /\ pc' = "enriched"
    /\ UNCHANGED <<variant, req, res, imageBuffer, ops, mergeVars, toolVars, browserVars>>
    /\ UNCHANGED sideVars

\* fs.writeFileSync(tempInput, imageBufferWithExif) throws; left says whether a
\* partial file stays behind
TempWriteFails(left, unlinkOk) ==
    /\ pc = "merged"
    /\ HasSecondaryPass
    /\ ops' = ops \cup {"tempwrite"}
    /\ Fallback("writeFileSync",
                IF left THEN WrittenFile(imageBufferWithExif, FALSE) ELSE NoFile, unlinkOk)
    /\ UNCHANGED <<variant, req, res, imageBuffer, mergeVars, exiftool, browserVars>>
    /\ UNCHANGED sideVars

\* the temp file is written, new ExifTool() throws
ToolConstructionFails(unlinkOk) ==
    /\ pc = "merged"
    /\ HasSecondaryPass
    /\ ops' = ops \cup {"tempwrite"}
    /\ Fallback("new ExifTool", WrittenFile(imageBufferWithExif, TRUE), unlinkOk)
    /\ UNCHANGED <<variant, req, res, imageBuffer, mergeVars, exiftool, browserVars>>
    /\ UNCHANGED sideVars

\* the temp file is written and the tool created; the handler awaits exiftool.write
SecondaryStart ==
    /\ pc = "merged"
    /\ HasSecondaryPass
    /\ ops' = ops \cup {"tempwrite"}
    /\ tempFile' = WrittenFile(imageBufferWithExif, TRUE)
    /\ exiftool' = "open"
    /\ pc' = "toolwrite"
    /\ UNCHANGED <<variant, req, res, imageBuffer, mergeVars, finalImageBuffer,
                   exifToolError, browserVars>>
    /\ UNCHANGED sideVars

\* await exiftool.write(tempInput, exifToolTags, ['-overwrite_original']) resolves
ToolWriteOk ==
    /\ pc = "toolwrite"
    /\ tempFile' = [tempFile EXCEPT !.content.xmp = exifToolTags]
    /\ pc' = "toolend"
    /\ UNCHANGED <<variant, req, res, imageBuffer, ops, mergeVars, finalImageBuffer,
                   exiftool, exifToolError, browserVars>>
    /\ UNCHANGED sideVars

\* exiftool.write rejects; damaged says whether it left the file half rewritten
ToolWriteFails(damaged, unlinkOk) ==
    /\ pc = "toolwrite"
    /\ Fallback("exiftool.write", [tempFile EXCEPT !.content.whole = ~damaged], unlinkOk)
    /\ UNCHANGED <<variant, req, res, imageBuffer, ops, mergeVars, exiftool, browserVars>>
    /\ UNCHANGED sideVars

\* await exiftool.end() resolves
ToolEndOk ==
    /\ pc = "toolend"
    /\ exiftool' = "ended"
    /\ pc' = "readback"
    /\ UNCHANGED <<variant, req, res, imageBuffer, ops, mergeVars, finalImageBuffer,
                   tempFile, exifToolError, browserVars>>
    /\ UNCHANGED sideVars

\* exiftool.end() rejects
ToolEndFails(unlinkOk) ==
    /\ pc = "toolend"
    /\ Fallback("exiftool.end", tempFile, unlinkOk)
    /\ UNCHANGED <<variant, req, res, imageBuffer, ops, mergeVars, exiftool, browserVars>>
    /\ UNCHANGED sideVars

\* finalImageBuffer = fs.readFileSync(tempInput), then the unlink in its own try
ReadBackOk(unlinkOk) ==
    /\ pc = "readback"
    /\ finalImageBuffer' = tempFile.content
    /\ tempFile' = IF unlinkOk THEN NoFile ELSE [tempFile EXCEPT !.stuck = TRUE]
    /\ pc' = "enriched"
    /\ UNCHANGED <<variant, req, res, imageBuffer, ops, mergeVars, exiftool,
                   exifToolError, browserVars>>
    /\ UNCHANGED sideVars

\* fs.readFileSync throws
ReadBackFails(unlinkOk) ==
    /\ pc = "readback"
    /\ Fallback("readFileSync", tempFile, unlinkOk)
    /\ UNCHANGED <<variant, req, res, imageBuffer, ops, mergeVars, exiftool, browserVars>>
    /\ UNCHANGED sideVars

\* return res.status(200).send(finalImageBuffer); V2 sends newImageBuffer
\* right after the merge
Respond ==
    /\ pc = IF variant = "V2" THEN "merged" ELSE "enriched"
    /\ Finish(ImageResponse(finalImageBuffer))
    /\ UNCHANGED <<variant, req, imageBuffer, ops, mergeVars, toolVars, browserVars>>
    /\ UNCHANGED sideVars

----------------------------------------------------------------------------
(* The browser: the save button, src/app.js lines 286-319 *)

\* the page holds an image (or none) and the user has filled the form
Edit(f, cur) ==
    /\ pc = "idle"
    /\ variant' = "browser"
    /\ form' = f
    /\ currentImageData' = cur
    /\ previewImg' = cur
    /\ pc' = "editing"
    /\ UNCHANGED <<req, res, imageBuffer, ops, mergeVars, toolVars>>
    /\ UNCHANGED sideVars

Alert(msg) == [NoResponse EXCEPT !.kind = "alert", !.error = msg]
Saved(buf) == [NoResponse EXCEPT !.kind = "saved", !.body = buf]

\* the click handler: its two guards, collectFormData, writeExifData, then
\* displayImage, currentImageData and the download; dumpOk: piexif.dump did not throw
SaveClick(dumpOk) ==
    /\ pc = "editing"
    /\ LET newExif == collectFormData(form)
           fresh == FreshExifFrom(newExif)
           img == currentImageData.image
       IN  IF ~currentImageData.loaded
           THEN /\ Finish(Alert("Please load an image first"))
                /\ UNCHANGED <<ops, mergeVars, toolVars, currentImageData, previewImg>>
           ELSE IF OneCoordinateFilled(form)
           THEN /\ Finish(Alert("Please provide both latitude and longitude"))
                /\ UNCHANGED <<ops, mergeVars, toolVars, currentImageData, previewImg>>
           ELSE IF ~IsJPEG(img)
           THEN /\ Finish(Alert("Image must be in JPEG format"))
                /\ ops' = ops \cup {"decode"}
                /\ UNCHANGED <<mergeVars, toolVars, currentImageData, previewImg>>
           ELSE IF DOMAIN fresh = {}
           THEN /\ Finish(Alert("No EXIF data to save"))
                /\ ops' = ops \cup {"decode"}
                /\ UNCHANGED <<mergeVars, toolVars, currentImageData, previewImg>>
           ELSE IF ~dumpOk
           THEN /\ Finish(Alert("Failed to create EXIF data"))
                /\ ops' = ops \cup {"decode", "dump"}
                /\ exifObj' = fresh
                /\ written' = DOMAIN fresh
                /\ UNCHANGED <<loadedExif, exifToolTags, imageBufferWithExif,
                               toolVars, currentImageData, previewImg>>
           ELSE /\ Finish(Saved(InsertExif(fresh, img)))
                /\ ops' = ops \cup {"decode", "dump", "insert"}
                /\ exifObj' = fresh
                /\ written' = DOMAIN fresh
                /\ imageBufferWithExif' = InsertExif(fresh, img)
                /\ finalImageBuffer' = InsertExif(fresh, img)
                /\ previewImg' = DataUrl(InsertExif(fresh, img))
                /\ currentImageData' = DataUrl(InsertExif(fresh, img))
                /\ UNCHANGED <<loadedExif, exifToolTags, tempFile, exiftool, exifToolError>>
    /\ UNCHANGED <<variant, req, imageBuffer, form>>
    /\ UNCHANGED sideVars

----------------------------------------------------------------------------

Next ==
    \/ pc = "idle" /\ \E v \in Variants, b \in Bodies : Receive(v, "POST", b)
    \/ pc = "idle" /\ \E v \in Variants, m \in Methods : Receive(v, m, BlankBody)
    \/ Preflight
    \/ MethodNotAllowed
    \/ Validate
    \/ FetchRejects
    \/ FetchNotOk
    \/ \E img \in Images : FetchOk(img)
    \/ \E img \in Images : Decode(img)
    \/ RejectFormat
    \/ TextWriteThrows
    \/ \E dumpOk \in BOOLEAN : Merge(dumpOk)
    \/ SecondarySkip
    \/ \E left \in BOOLEAN, unlinkOk \in BOOLEAN : TempWriteFails(left, unlinkOk)
    \/ \E unlinkOk \in BOOLEAN : ToolConstructionFails(unlinkOk)
    \/ SecondaryStart
    \/ ToolWriteOk
    \/ \E damaged \in BOOLEAN, unlinkOk \in BOOLEAN : ToolWriteFails(damaged, unlinkOk)
    \/ ToolEndOk
    \/ \E unlinkOk \in BOOLEAN : ToolEndFails(unlinkOk)
    \/ \E unlinkOk \in BOOLEAN : ReadBackOk(unlinkOk)
    \/ \E unlinkOk \in BOOLEAN : ReadBackFails(unlinkOk)
    \/ Respond
    \/ pc = "idle" /\ \E f \in Forms, cur \in LoadedImages : Edit(f, cur)
    \/ SaveClick(TRUE)
    \/ SaveClick(FALSE)

Spec == Init /\ [][Next]_vars

\* The steps the handler takes by itself once it runs: synchronous code up to
\* the next await.  The settlement of `await fetch(imageUrl)` and of
\* `await imageResponse.arrayBuffer()` is not among them: it is the remote
\* host's, and the handler passes fetch no timeout or abort signal.
HandlerStep ==
    \/ Preflight
    \/ MethodNotAllowed
    \/ Validate
    \/ \E img \in Images : Decode(img)
    \/ RejectFormat
    \/ TextWriteThrows
    \/ \E dumpOk \in BOOLEAN : Merge(dumpOk)
    \/ SecondarySkip
    \/ \E left \in BOOLEAN, unlinkOk \in BOOLEAN : TempWriteFails(left, unlinkOk)
    \/ \E unlinkOk \in BOOLEAN : ToolConstructionFails(unlinkOk)
    \/ SecondaryStart
    \/ \E unlinkOk \in BOOLEAN : ReadBackOk(unlinkOk)
    \/ \E unlinkOk \in BOOLEAN : ReadBackFails(unlinkOk)
    \/ Respond

\* `await exiftool.write(...)` or `await exiftool.end()` settles
ToolSettles ==
    \/ ToolWriteOk
    \/ \E damaged \in BOOLEAN, unlinkOk \in BOOLEAN : ToolWriteFails(damaged, unlinkOk)
    \/ ToolEndOk
    \/ \E unlinkOk \in BOOLEAN : ToolEndFails(unlinkOk)

\* The handlers under the scheduling of the event loop.  The ExifTool promises
\* are taken to settle (the handler sets no timeout on them either; granting
\* it leaves only the fetch as a place where a request can wait forever).
SpecFair == Init /\ [][Next]_vars /\ WF_vars(HandlerStep) /\ WF_vars(ToolSettles)

----------------------------------------------------------------------------
(* The codec called on its own *)

\* a call convertDDToDMS(dd, isLat) in one of the files is about to run
InitCodec ==
    /\ HandlerIdle
    /\ codecPc = "called"
    /\ codecFile \in CodecFiles
    /\ isLatArg \in BOOLEAN
    /\ ddArg \in ValidDegrees(isLatArg)
    /\ dmsResult = NoDMS
    /\ restored = NoDD
    /\ PoolOff
    /\ CropOff
    /\ LoadsOff

\* const latResult = convertDDToDMS(lat, true)
Convert ==
    /\ codecPc = "called"
    /\ dmsResult' = DDToDMS(ddArg, isLatArg, SecDenominatorOf(codecFile))
    /\ codecPc' = "converted"
    /\ UNCHANGED <<codecFile, ddArg, isLatArg, restored, notCodecVars>>

\* convertDMSToDD(exifData.GPSLatitude, exifData.GPSLatitudeRef)
Restore ==
    /\ codecPc = "converted"
    /\ restored' = convertDMSToDD(dmsResult[1], dmsResult[2])
    /\ codecPc' = "restored"
    /\ UNCHANGED <<codecFile, ddArg, isLatArg, dmsResult, notCodecVars>>

NextCodec == Convert \/ Restore

SpecCodec == InitCodec /\ [][NextCodec]_vars

\* Decimal degrees just below a whole minute: w degrees and k minutes less
\* 1/(60 d) of a degree, for <<k, d>> with k * d = 1 modulo 60
MinuteEdges == {<<1, 1800001>>, <<7, 1800043>>, <<11, 1800011>>, <<59, 1800059>>}

EdgeDegrees ==
    {[nan |-> FALSE, n |-> s * (w * e[2] + (e[1] * e[2] - 1) \div 60), d |-> e[2]] :
        s \in {0 - 1, 1}, w \in {0, 40, 89, 179}, e \in MinuteEdges}

\* the same calls with coordinates next to a minute boundary
InitCodecEdge ==
    /\ HandlerIdle
    /\ codecPc = "called"
    /\ codecFile \in CodecFiles
    /\ isLatArg \in BOOLEAN
    /\ ddArg \in {v \in EdgeDegrees : Abs(v.n) <= (IF isLatArg THEN 90 ELSE 180) * v.d}
    /\ dmsResult = NoDMS
    /\ restored = NoDD
    /\ PoolOff
    /\ CropOff
    /\ LoadsOff

SpecCodecEdge == InitCodecEdge /\ [][NextCodec]_vars

----------------------------------------------------------------------------
(* Concurrent requests in the secondary pass, V1 lines 253-323 and V3      *)
(* lines 784-822.  The handler is async: other requests run while one      *)
(* awaits exiftool.write or exiftool.end.                                   *)

MaxNow == 2

\* Math.random().toString(36).substring(7)
RandomSuffixes == {"k3f9q", "x0a1z"}

\* path.join(os.tmpdir(), `exif-input-${Date.now()}-${Math.random()...}.jpg`)
\* in V1, `exif-input-${Date.now()}.jpg` in V3
TempInputPath(v, t, rnd) == IF v = "V1" THEN <<t, rnd>> ELSE <<t>>

\* the directory with path p holding the image of request r
WithFile(dir, p, r) == (p :> [image |-> r, tags |-> 0]) @@ dir

\* the directory without path p
WithoutFile(dir, p) == [q \in DOMAIN dir \ {p} |-> dir[q]]

InitPool ==
    /\ HandlerIdle
    /\ CodecOff
    /\ CropOff
    /\ LoadsOff
    /\ poolHandler \in {"V1", "V3"}
    /\ now = 0
    /\ inflight = [r \in Requests |-> "waiting"]
    /\ tempInput = [r \in Requests |-> NoPath]
    /\ tmpdir = <<>>
    /\ readBack = [r \in Requests |-> 0]

\* a millisecond passes
Tick ==
    /\ now < MaxNow
    /\ now' = now + 1
    /\ UNCHANGED <<poolHandler, inflight, tempInput, tmpdir, readBack, notPoolVars>>

\* request r computes tempInput and writes imageBufferWithExif to it
WriteTemp(r, rnd) ==
    /\ inflight[r] = "waiting"
    /\ LET p == TempInputPath(poolHandler, now, rnd)
       IN  /\ tempInput' = [tempInput EXCEPT ![r] = p]
           /\ tmpdir' = WithFile(tmpdir, p, r)
    /\ inflight' = [inflight EXCEPT ![r] = "written"]
    /\ UNCHANGED <<poolHandler, now, readBack, notPoolVars>>

\* the catch of the pass: request r sends its own imageBufferWithExif; V1
\* removes tempInput when it exists
PoolFallback(r) ==
    /\ readBack' = [readBack EXCEPT ![r] = r]
    /\ tmpdir' = IF poolHandler = "V1" /\ tempInput[r] \in DOMAIN tmpdir
                 THEN WithoutFile(tmpdir, tempInput[r]) ELSE tmpdir
    /\ inflight' = [inflight EXCEPT ![r] = "sent"]

\* exiftool.write(tempInput, exifToolTags) and exiftool.end() of request r:
\* the file at the path gets r's tags; with no file there the tool rejects
PoolToolWrite(r) ==
    /\ inflight[r] = "written"
    /\ IF tempInput[r] \in DOMAIN tmpdir
       THEN /\ tmpdir' = [tmpdir EXCEPT ![tempInput[r]].tags = r]
            /\ inflight' = [inflight EXCEPT ![r] = "tooled"]
            /\ UNCHANGED readBack
       ELSE PoolFallback(r)
    /\ UNCHANGED <<poolHandler, now, tempInput, notPoolVars>>

\* exiftool.write rejects for a reason of its own
PoolToolFails(r) ==
    /\ inflight[r] = "written"
    /\ PoolFallback(r)
    /\ UNCHANGED <<poolHandler, now, tempInput, notPoolVars>>

\* finalImageBuffer = fs.readFileSync(tempInput); fs.unlinkSync(tempInput);
\* request r sends what it read
PoolReadBack(r) ==
    /\ inflight[r] = "tooled"
    /\ IF tempInput[r] \in DOMAIN tmpdir
       THEN /\ readBack' = [readBack EXCEPT ![r] = tmpdir[tempInput[r]].image]
            /\ tmpdir' = WithoutFile(tmpdir, tempInput[r])
            /\ inflight' = [inflight EXCEPT ![r] = "sent"]
       ELSE PoolFallback(r)
    /\ UNCHANGED <<poolHandler, now, tempInput, notPoolVars>>

NextPool ==
    \/ Tick
    \/ \E r \in Requests, rnd \in RandomSuffixes : WriteTemp(r, rnd)
    \/ \E r \in Requests : PoolToolWrite(r)
    \/ \E r \in Requests : PoolToolFails(r)
    \/ \E r \in Requests : PoolReadBack(r)

SpecPool == InitPool /\ [][NextPool]_vars

----------------------------------------------------------------------------
(* The crop handler, src/unnamed/part_001 *)

MaxSide == 3
MaxCrop == 3

\* the image's width and height in pixels
Sides == 1..MaxSide

\* a crop value of the request: absent or an integer
CropValues == {Undef} \cup {Num(k, 1) : k \in (0 - 1)..MaxCrop}

CropOptionSets ==
    {[given |-> TRUE, top |-> t, bottom |-> b, left |-> l, right |-> r] :
        t \in CropValues, b \in CropValues, l \in CropValues, r \in CropValues}
    \cup {NoCropOptions}

\* which of imageUrl and imageData the body holds; imageData is used when both are
CropSources == {"none", "imageUrl", "imageData"}

\* `top && top > 0`
Positive(v) == Truthy(v) /\ v.n > 0

hasCrop(o) ==
    Positive(o.top) \/ Positive(o.bottom) \/ Positive(o.left) \/ Positive(o.right)

\* `left || 0`
OrZero(v) == IF Truthy(v) THEN v.n ELSE 0

\* cropLeft, cropTop, cropWidth, cropHeight
CropAreaOf(o, m) ==
    [called |-> TRUE,
     left |-> OrZero(o.left),
     top |-> OrZero(o.top),
     width |-> m.width - OrZero(o.left) - OrZero(o.right),
     height |-> m.height - OrZero(o.top) - OrZero(o.bottom)]

\* cropWidth <= 0 || cropHeight <= 0
EmptyArea(a) == a.width <= 0 \/ a.height <= 0

\* fault: only the far edges are compared with the image
ExceedsFarEdges(a, m) ==
    \/ a.left + a.width > m.width
    \/ a.top + a.height > m.height

\* cropLeft < 0 || cropTop < 0 || cropLeft + cropWidth > originalWidth
\* || cropTop + cropHeight > originalHeight
ExceedsBoundaries(a, m) ==
    \/ a.left < 0
    \/ a.top < 0
    \/ a.left + a.width > m.width
    \/ a.top + a.height > m.height

CropAnswer(code, msg) ==
    /\ cropRes' = [status |-> code, error |-> msg]
    /\ cropPc' = "done"

InitCrop ==
    /\ HandlerIdle
    /\ CodecOff
    /\ PoolOff
    /\ LoadsOff
    /\ cropPc = "idle"
    /\ cropReq = NoCropRequest
    /\ metadata = NoMetadata
    /\ extractArea = NoArea
    /\ cropRes = [status |-> 0, error |-> ""]

CropReceive(m, src, o) ==
    /\ cropPc = "idle"
    /\ cropReq' = [method |-> m, source |-> src, cropOptions |-> o]
    /\ cropPc' = "received"
    /\ UNCHANGED <<metadata, extractArea, cropRes, notCropVars>>

CropPreflight ==
    /\ cropPc = "received"
    /\ cropReq.method = "OPTIONS"
    /\ CropAnswer(200, "")
    /\ UNCHANGED <<cropReq, metadata, extractArea, notCropVars>>

CropMethodNotAllowed ==
    /\ cropPc = "received"
    /\ cropReq.method \notin {"OPTIONS", "POST"}
    /\ CropAnswer(405, "Method not allowed. Use POST.")
    /\ UNCHANGED <<cropReq, metadata, extractArea, notCropVars>>

\* the three validations at the head of the try block
CropValidate ==
    /\ cropPc = "received"
    /\ cropReq.method = "POST"
    /\ IF cropReq.source = "none"
       THEN CropAnswer(400, "Either imageUrl or imageData (base64) is required")
       ELSE IF ~cropReq.cropOptions.given
       THEN CropAnswer(400, "cropOptions is required with at least one crop value")
       ELSE IF ~hasCrop(cropReq.cropOptions)
       THEN CropAnswer(400, "At least one crop value (top, bottom, left, or right) must be greater than 0")
       ELSE cropPc' = "validated" /\ UNCHANGED cropRes
    /\ UNCHANGED <<cropReq, metadata, extractArea, notCropVars>>

\* Buffer.from(base64Data, 'base64')
CropDecode ==
    /\ cropPc = "validated"
    /\ cropReq.source = "imageData"
    /\ cropPc' = "loaded"
    /\ UNCHANGED <<cropReq, metadata, extractArea, cropRes, notCropVars>>

\* await fetch(imageUrl) rejects: the catch answers 500
CropFetchRejects ==
    /\ cropPc = "validated"
    /\ cropReq.source = "imageUrl"
    /\ CropAnswer(500, "Failed to crop image")
    /\ UNCHANGED <<cropReq, metadata, extractArea, notCropVars>>

CropFetchNotOk ==
    /\ cropPc = "validated"
    /\ cropReq.source = "imageUrl"
    /\ CropAnswer(400, "Failed to fetch image")
    /\ UNCHANGED <<cropReq, metadata, extractArea, notCropVars>>

CropFetchOk ==
    /\ cropPc = "validated"
    /\ cropReq.source = "imageUrl"
    /\ cropPc' = "loaded"
    /\ UNCHANGED <<cropReq, metadata, extractArea, cropRes, notCropVars>>

\* await sharp(buffer).metadata() rejects: the bytes are no image
CropMetadataFails ==
    /\ cropPc = "loaded"
    /\ CropAnswer(500, "Failed to crop image")
    /\ UNCHANGED <<cropReq, metadata, extractArea, notCropVars>>

\* metadata() resolves with width w and height h; the crop area is computed
\* and checked, and sharp's extract is called with it
CropMeasure(w, h) ==
    /\ cropPc = "loaded"
    /\ LET m == [width |-> w, height |-> h]
           a == CropAreaOf(cropReq.cropOptions, m)
       IN  /\ metadata' = m
           /\ IF EmptyArea(a)
              THEN /\ CropAnswer(400, "Invalid crop dimensions. The crop area would result in zero or negative dimensions.")
                   /\ UNCHANGED extractArea
              ELSE IF ExceedsBoundaries(a, m)
              THEN /\ CropAnswer(400, "Crop area exceeds image boundaries.")
                   /\ UNCHANGED extractArea
              ELSE /\ extractArea' = a
                   /\ cropPc' = "extracting"
                   /\ UNCHANGED cropRes
    /\ UNCHANGED <<cropReq, notCropVars>>

\* the extract and the JPEG encoding resolve: res.status(200).send(croppedBuffer)
CropExtractOk ==
    /\ cropPc = "extracting"
    /\ CropAnswer(200, "")
    /\ UNCHANGED <<cropReq, metadata, extractArea, notCropVars>>

\* toBuffer() rejects
CropExtractFails ==
    /\ cropPc = "extracting"
    /\ CropAnswer(500, "Failed to crop image")
    /\ UNCHANGED <<cropReq, metadata, extractArea, notCropVars>>

NextCrop ==
    \/ cropPc = "idle" /\ \E src \in CropSources, o \in CropOptionSets :
                              CropReceive("POST", src, o)
    \/ cropPc = "idle" /\ \E m \in Methods : CropReceive(m, "imageData", NoCropOptions)
    \/ CropPreflight
    \/ CropMethodNotAllowed
    \/ CropValidate
    \/ CropDecode
    \/ CropFetchRejects
    \/ CropFetchNotOk
    \/ CropFetchOk
    \/ CropMetadataFails
    \/ \E w \in Sides, h \in Sides : CropMeasure(w, h)
    \/ CropExtractOk
    \/ CropExtractFails

SpecCrop == InitCrop /\ [][NextCrop]_vars

----------------------------------------------------------------------------
(* Image loads in the browser, src/app.js lines 53-183.  Every step is a    *)
(* callback the browser runs when a FileReader, a fetch, an Image or a      *)
(* canvas has finished; callbacks of different loads run in any order.     *)

\* the file or URL of load l: a JPEG or a PNG whose picture is l
JpegOf(l) == Buffer(<<255, 216, l>>, CameraExif)
PngOf(l) == Buffer(<<137, 80, l>>, EmptyExif)
LoadFiles(l) == {JpegOf(l), PngOf(l)}

\* dataUrl.split(',')[0].split(':')[1].split(';')[0]
MimeOf(img) == IF IsJPEG(img) THEN "image/jpeg" ELSE "image/png"

\* canvas.toDataURL('image/jpeg', quality) / canvas.toBlob(..., 'image/jpeg'):
\* the same picture as JPEG bytes, without EXIF
ToJPEG(img) == Buffer(<<255, 216, img.bytes[3]>>, EmptyExif)

InitLoads ==
    /\ HandlerIdle
    /\ CodecOff
    /\ PoolOff
    /\ CropOff
    /\ LoadsOff

\* the user picks a file (loadImageFromFile) or clicks Load URL
\* (loadImageFromUrl); load 1 is started first
StartLoad(l, src, img) ==
    /\ loading[l].at = "unstarted"
    /\ l = 1 \/ loading[1].at # "unstarted"
    /\ loading' = [loading EXCEPT ![l] =
                      [at |-> src, source |-> src, image |-> img,
                       overlaps |-> l # 1 /\ loading[1].at \notin {"done", "failed"}]]
    /\ UNCHANGED <<originalImageFormat, currentImageData, previewImg, notLoadVars>>

\* reader.onload of loadImageFromFile: loadImageFromBlob starts its own reader
FileRead(l) ==
    /\ loading[l].at = "file"
    /\ loading' = [loading EXCEPT ![l].at = "blob"]
    /\ UNCHANGED <<originalImageFormat, currentImageData, previewImg, notLoadVars>>

\* fetch and response.blob() resolve: loadImageFromBlob(blob, url)
UrlFetched(l) ==
    /\ loading[l].at = "url"
    /\ loading' = [loading EXCEPT ![l].at = "blob"]
    /\ UNCHANGED <<originalImageFormat, currentImageData, previewImg, notLoadVars>>

\* the fetch fails: the catch loads the URL into an Image
UrlFetchFails(l) ==
    /\ loading[l].at = "url"
    /\ loading' = [loading EXCEPT ![l].at = "img"]
    /\ UNCHANGED <<originalImageFormat, currentImageData, previewImg, notLoadVars>>

\* img.onload of the catch: the canvas yields a JPEG blob for loadImageFromBlob
ImageDrawn(l) ==
    /\ loading[l].at = "img"
    /\ loading' = [loading EXCEPT ![l].at = "blob", ![l].image = ToJPEG(loading[l].image)]
    /\ UNCHANGED <<originalImageFormat, currentImageData, previewImg, notLoadVars>>

\* img.onerror of the catch
ImageError(l) ==
    /\ loading[l].at = "img"
    /\ loading' = [loading EXCEPT ![l].at = "failed"]
    /\ UNCHANGED <<originalImageFormat, currentImageData, previewImg, notLoadVars>>

\* reader.onload of loadImageFromBlob up to its await: the format is stored;
\* a JPEG becomes currentImageData and is displayed, anything else waits for
\* convertToJPEG
BlobRead(l) ==
    /\ loading[l].at = "blob"
    /\ originalImageFormat' = MimeOf(loading[l].image)
    /\ IF MimeOf(loading[l].image) = "image/jpeg"
       THEN /\ currentImageData' = DataUrl(loading[l].image)
            /\ previewImg' = DataUrl(loading[l].image)
            /\ loading' = [loading EXCEPT ![l].at = "done"]
       ELSE /\ loading' = [loading EXCEPT ![l].at = "converting"]
            /\ UNCHANGED <<currentImageData, previewImg>>
    /\ UNCHANGED notLoadVars

\* convertToJPEG resolves: currentImageData = await convertToJPEG(dataUrl)
Converted(l) ==
    /\ loading[l].at = "converting"
    /\ currentImageData' = DataUrl(ToJPEG(loading[l].image))
    /\ previewImg' = DataUrl(ToJPEG(loading[l].image))
    /\ loading' = [loading EXCEPT ![l].at = "done"]
    /\ UNCHANGED <<originalImageFormat, notLoadVars>>

\* convertToJPEG rejects: currentImageData = dataUrl
ConversionFails(l) ==
    /\ loading[l].at = "converting"
    /\ currentImageData' = DataUrl(loading[l].image)
    /\ previewImg' = DataUrl(loading[l].image)
    /\ loading' = [loading EXCEPT ![l].at = "done"]
    /\ UNCHANGED <<originalImageFormat, notLoadVars>>

NextLoads ==
    \/ \E l \in Loads, src \in {"file", "url"} : \E img \in LoadFiles(l) :
           StartLoad(l, src, img)
    \/ \E l \in Loads : FileRead(l)
    \/ \E l \in Loads : UrlFetched(l)
    \/ \E l \in Loads : UrlFetchFails(l)
    \/ \E l \in Loads : ImageDrawn(l)
    \/ \E l \in Loads : ImageError(l)
    \/ \E l \in Loads : BlobRead(l)
    \/ \E l \in Loads : Converted(l)
    \/ \E l \in Loads : ConversionFails(l)

SpecLoads == InitLoads /\ [][NextLoads]_vars

----------------------------------------------------------------------------
(* Properties *)

ServerRequest == variant \in Variants /\ req.method = "POST"

Given(v) == v.t # "undefined"

\* the serialization was attempted and threw
DumpThrew == "dump" \in ops /\ "insert" \notin ops

\* C1: a validated POST with JPEG bytes, a structured description and an
\* in-range latitude and longitude is answered 200 with an image whose 0th
\* section holds the description and whose GPS section holds the encoded
\* coordinates, whatever the ExifTool pass does.
C1_DescriptionAndGPSEmbedded ==
    (/\ ServerRequest /\ variant \in {"V1", "V3"}
     /\ pc = "done"
     /\ IsJPEG(imageBuffer)
     /\ ~DumpThrew
     /\ Truthy(req.body.description)
     /\ Given(req.body.latitude) /\ Given(req.body.longitude)
     /\ CoordsUsable(parseFloat(req.body.latitude), parseFloat(req.body.longitude)))
    => LET gps == FourGPSTags(parseFloat(req.body.latitude),
                              parseFloat(req.body.longitude), FALSE)
       IN  /\ res.status = 200
           /\ res.kind = "image"
           /\ HasTag(res.body.exif, ImageDescription)
           /\ res.body.exif[ImageDescription] = JSString(req.body.description)
           /\ \A k \in GPSFour : HasTag(res.body.exif, k) /\ res.body.exif[k] = gps[k]

\* C2: once a step of the ExifTool pass has failed, the handler goes on to
\* answer 200 and the body is exactly the buffer of the EXIF merge, whole.
C2_SecondaryFailureFallsBack ==
    exifToolError # ""
    => /\ pc \in {"enriched", "done"}
       /\ finalImageBuffer = imageBufferWithExif
       /\ imageBufferWithExif = InsertExif(exifObj, imageBuffer)
       /\ finalImageBuffer.whole
       /\ pc = "enriched" => ENABLED Respond
       /\ pc = "done" => res = ImageResponse(imageBufferWithExif)

C2_Witness ==
    /\ pc = "done"
    /\ exifToolError = "exiftool.write"
    /\ tempFile.exists /\ ~tempFile.content.whole
    /\ res.status = 200

\* the tags the non-absent fields of the request map to in the EXIF container
TargetTags(v, b) ==
    LET e == b.exifData.v
    IN  IF v = "V2"
        THEN (IF Given(e["description"]) THEN {ImageDescription, UserComment} ELSE {})
             \cup (IF Given(e["keywords"]) THEN {UserComment, DocumentName, XPKeywords} ELSE {})
             \cup (IF Given(e["make"]) THEN {Make} ELSE {})
             \cup (IF Given(e["model"]) THEN {Model} ELSE {})
             \cup (IF Given(e["copyright"]) THEN {Copyright} ELSE {})
             \cup (IF Given(e["datetime"]) THEN {DateTime, DateTimeOriginal} ELSE {})
             \cup (IF Given(e["latitude"]) \/ Given(e["longitude"]) THEN GPSFour ELSE {})
             \cup (IF Given(e["altitude"]) THEN {GPSAltitude, GPSAltitudeRef} ELSE {})
        ELSE (IF Given(b.latitude) \/ Given(b.longitude)
                 \/ Given(e["latitude"]) \/ Given(e["longitude"])
              THEN GPSFour ELSE {})
             \cup (IF Given(b.altitude) \/ Given(e["altitude"])
                   THEN {GPSAltitude, GPSAltitudeRef} ELSE {})

\* C3: in the container a server handler serializes, every tag of the loaded
\* container that the request's fields do not map to has its loaded value,
\* and the handler assigned no tag outside that mapping.
C3_MergeKeepsOtherTags ==
    (variant \in Variants /\ "dump" \in ops)
    => /\ written \subseteq TargetTags(variant, req.body)
       /\ \A k \in DOMAIN loadedExif \ TargetTags(variant, req.body) :
              HasTag(exifObj, k) /\ exifObj[k] = loadedExif[k]

C3_Witness ==
    /\ variant = "V2"
    /\ "insert" \in ops
    /\ loadedExif = CameraExif
    /\ ImageDescription \in written
    /\ exifObj[ImageDescription] # loadedExif[ImageDescription]
    /\ exifObj[Orientation] = loadedExif[Orientation]
    /\ exifObj[Compression] = loadedExif[Compression]

\* C4: on every embed path one request assigns the four coordinate tags
\* together or none of them.
C4_GPSAtomic ==
    /\ written \cap GPSFour \in {{}, GPSFour}
    /\ (res.kind \in {"image", "saved"} /\ variant = "browser")
       => DOMAIN res.body.exif \cap GPSFour \in {{}, GPSFour}

C4_Witness ==
    /\ variant = "V3"
    /\ "insert" \in ops
    /\ req.body.latitude = LatOk
    /\ ~Given(req.body.longitude)
    /\ written \cap GPSFour = {}

\* exactly one of the coordinates the variant reads is supplied
OneCoordinateOnly(v, b) ==
    IF v = "V2"
    THEN Given(b.exifData.v["latitude"]) # Given(b.exifData.v["longitude"])
    ELSE Given(b.latitude) # Given(b.longitude)

ValidationMessages ==
    {"Either imageUrl or imageData (base64) is required", "imageUrl is required",
     "At least one metadata field is required",
     "exifData is required with at least one field"}

\* C5 as stated: a server request with exactly one of latitude / longitude is
\* answered 400 and no image is returned.
C5_OneCoordinateRejected ==
    (ServerRequest /\ pc = "done" /\ OneCoordinateOnly(variant, req.body)
     /\ IsJPEG(imageBuffer) /\ ~DumpThrew)
    => res.status = 400 /\ res.kind # "image"

\* C5 amended: a server request with exactly one of latitude / longitude is
\* not rejected for it: its only 400 answers are those for the image source,
\* the fetch and the format, it assigns no GPS tag, and with JPEG bytes and
\* no text-block or serialization error it is answered 200 with the GPS
\* section as loaded.  The browser save handler is the path that refuses a
\* single coordinate: it alerts and saves nothing.
C5_OneCoordinateDropsGPS ==
    /\ (ServerRequest /\ OneCoordinateOnly(variant, req.body))
       => /\ written \cap (GPSFour \cup {GPSAltitude, GPSAltitudeRef}) = {}
          /\ res.status = 400
             => res.error \in {"Either imageUrl or imageData (base64) is required",
                               "imageUrl is required", "Failed to fetch image",
                               "Only JPEG images are supported"}
          /\ (pc = "done" /\ IsJPEG(imageBuffer) /\ ~DumpThrew /\ TextBlockPasses)
             => /\ res.status = 200
                /\ \A k \in DOMAIN loadedExif :
                       k[1] = "GPS" => HasTag(res.body.exif, k)
                                       /\ res.body.exif[k] = loadedExif[k]
                /\ \A k \in DOMAIN res.body.exif : k[1] = "GPS" => HasTag(loadedExif, k)
    /\ (variant = "browser" /\ pc = "done" /\ currentImageData.loaded
        /\ OneCoordinateFilled(form))
       => res.kind = "alert" /\ "insert" \notin ops

C5_Witness ==
    /\ variant = "V3"
    /\ pc = "done"
    /\ req.body.latitude = LatOk
    /\ ~Given(req.body.longitude)
    /\ loadedExif = CameraExif
    /\ res.status = 200
    /\ res.body.exif[GPSLatitude] = CameraExif[GPSLatitude]

\* the keywords of a string or list input: trimmed, empty entries removed
ExpectedKeywords(v) ==
    IF v.t = "array" THEN FilterNonEmpty(MapTrim(v.l))
    ELSE IF v.t = "string" THEN FilterNonEmpty(MapTrim(Split(v.s)))
    ELSE <<>>

\* every metadata field of the body is absent after normalization
AllFieldsAbsent(b) ==
    /\ ~Truthy(b.title) /\ ~Truthy(b.description)
    /\ ~Truthy(b.city) /\ ~Truthy(b.country)
    /\ ExpectedKeywords(b.keywords) = <<>>
    /\ parseFloat(b.latitude).nan /\ parseFloat(b.longitude).nan
    /\ b.exifData.keys \cap LegacyKeys = {}

\* C6: a request whose metadata fields are all absent after normalization
\* never passes validation: it is answered 400 and no image is returned.
C6_EmptyRequestRejected ==
    (ServerRequest /\ pc \notin {"idle", "received"} /\ AllFieldsAbsent(req.body))
    => pc = "done" /\ res.status = 400 /\ res.error \in ValidationMessages

\* C7: when the handler answers 400 for a missing image source or missing
\* metadata, no image operation has happened in that request; and a request
\* the validation rejects never gets past it.
C7_ValidationBeforeImageAccess ==
    /\ (variant \in Variants /\ res.status = 400 /\ res.error \in ValidationMessages)
       => /\ ops = {}
          /\ ~imageBuffer.defined
          /\ ~tempFile.exists
          /\ exiftool = "none"
    /\ (ServerRequest /\ pc \notin {"idle", "received"}
        /\ ValidationError(variant, req.body) # "")
       => pc = "done" /\ res.status = 400 /\ res.error \in ValidationMessages

C7_Witness ==
    /\ variant = "V1"
    /\ pc = "done"
    /\ Truthy(req.body.imageUrl)
    /\ res = JsonError(400, "At least one metadata field is required")

ExifSteps == {"load", "dump", "insert", "tempwrite"}

C9_SourceFailureIs400 ==
    (ServerRequest /\ pc = "done"
     /\ (("fetch" \in ops /\ ~imageBuffer.defined)
         \/ ("decode" \in ops /\ ~IsJPEG(imageBuffer))))
    => res.status = 400

\* C10: the keywords written to the EXIF container (DocumentName) are the
\* input entries trimmed, without empty entries, in order, joined by ", ",
\* and the ExifTool lists are those entries; string and list inputs of the
\* same keywords give the same result.
C10_KeywordsNormalized ==
    /\ (variant = "V2" /\ "dump" \in ops /\ Truthy(req.body.exifData.v["keywords"]))
       => /\ HasTag(exifObj, DocumentName)
          /\ exifObj[DocumentName]
             = Join(ExpectedKeywords(req.body.exifData.v["keywords"]), CommaSpace)
    /\ (variant = "browser" /\ "dump" \in ops /\ HasTag(exifObj, DocumentName))
       => exifObj[DocumentName] = Join(ExpectedKeywords(form["keywords"]), CommaSpace)
    /\ (variant = "V3" /\ "dump" \in ops /\ "XMP:Subject" \in DOMAIN exifToolTags)
       => exifToolTags["XMP:Subject"]
          = ExpectedKeywords(IF Truthy(req.body.keywords) THEN req.body.keywords
                             ELSE req.body.exifData.v["keywords"])

\* the keywords input a handler reads: V2 the legacy field, V1 and V3 the
\* structured field, else the legacy one
SuppliedKeywords(v, b) ==
    IF v = "V2" THEN b.exifData.v["keywords"]
    ELSE IF Truthy(b.keywords) THEN b.keywords
    ELSE b.exifData.v["keywords"]

\* the key of the keyword list in exifToolTags
SubjectTag(v) == IF v = "V1" THEN "XMP-dc:Subject" ELSE "XMP:Subject"

\* C11: a request with at least one non-empty keyword is answered with an
\* image whose 0th section holds the keywords joined by ", " (DocumentName),
\* and the ExifTool tag mapping holds the same keywords as a list, also when
\* a title is supplied.
C11_KeywordsInBothSections ==
    LET kws == ExpectedKeywords(SuppliedKeywords(variant, req.body))
    IN  (ServerRequest /\ pc = "done" /\ IsJPEG(imageBuffer) /\ ~DumpThrew
         /\ Len(kws) > 0)
        => /\ res.status = 200
           /\ HasTag(res.body.exif, DocumentName)
           /\ res.body.exif[DocumentName] = Join(kws, CommaSpace)
           /\ variant # "V2"
              => /\ SubjectTag(variant) \in DOMAIN exifToolTags
                 /\ exifToolTags[SubjectTag(variant)] = kws

\* the four coordinate tags of container c are the encoding of lat and lon
FromPair(c, lat, lon) ==
    \A k \in GPSFour :
        HasTag(c, k) /\ c[k] = FourGPSTags(parseFloat(lat), parseFloat(lon), FALSE)[k]

\* C12: the coordinate tags a request writes encode either its structured
\* latitude and longitude, both given, or its legacy exifData latitude and
\* longitude, both given; never one of each.
C12_GPSFromOneShape ==
    LET b == req.body
        e == req.body.exifData.v
    IN  (variant \in Variants /\ written \cap GPSFour # {})
        => \/ /\ variant # "V2"
              /\ Given(b.latitude) /\ Given(b.longitude)
              /\ FromPair(exifObj, b.latitude, b.longitude)
           \/ /\ Given(e["latitude"]) /\ Given(e["longitude"])
              /\ FromPair(exifObj, e["latitude"], e["longitude"])

C12_Witness ==
    /\ variant = "V3"
    /\ "insert" \in ops
    /\ req.body.latitude = LatOk /\ req.body.longitude = LonOk
    /\ req.body.exifData = LegacyPair
    /\ GPSFour \subseteq written
    /\ FromPair(res.body.exif, LatOk, LonOk)
    /\ ~FromPair(res.body.exif, Num(1, 2), Num(3, 2))

\* C13: when a structured field is present, the legacy exifData supplies the
\* description exactly when the structured description is empty and the
\* keywords exactly when no structured keyword survives normalization (an
\* empty list or a blank string included); legacy coordinates and the other
\* legacy fields are not written.
C13_LegacyFillsOnlyEmptyText ==
    LET b == req.body
        e == req.body.exifData.v
        own == ExpectedKeywords(b.keywords)
        legacy == ExpectedKeywords(e["keywords"])
    IN  (variant = "V3" /\ "dump" \in ops /\ HasNewFormat(b))
        => /\ (~Truthy(b.description) /\ Truthy(e["description"]))
              => /\ "XMP:Description" \in DOMAIN exifToolTags
                 /\ exifToolTags["XMP:Description"] = JSString(e["description"])
           /\ Truthy(b.description)
              => exifToolTags["XMP:Description"] = JSString(b.description)
           /\ (Len(own) = 0 /\ Len(legacy) > 0)
              => /\ "XMP:Subject" \in DOMAIN exifToolTags
                 /\ exifToolTags["XMP:Subject"] = legacy
           /\ Len(own) > 0 => exifToolTags["XMP:Subject"] = own
           /\ written \cap GPSFour # {}
              => /\ Given(b.latitude) /\ Given(b.longitude)
                 /\ FromPair(exifObj, b.latitude, b.longitude)
           /\ written \cap {Make, Model, Copyright, DateTime, DateTimeOriginal} = {}

\* a request of the legacy shape: every structured field is undefined
LegacyShape(b) ==
    /\ ~Given(b.title) /\ ~Given(b.description) /\ ~Given(b.keywords)
    /\ ~Given(b.city) /\ ~Given(b.country)
    /\ ~Given(b.latitude) /\ ~Given(b.longitude) /\ ~Given(b.altitude)
    /\ b.exifData.defined

\* C14: a legacy-shape request with a JPEG is answered with an image whose
\* Make, Model and Copyright tags hold every non-empty make, model and
\* copyright of its exifData.
C14_LegacyCameraFieldsWritten ==
    LET e == req.body.exifData.v
        camera == <<<<"make", Make>>, <<"model", Model>>, <<"copyright", Copyright>>>>
    IN  (ServerRequest /\ pc = "done" /\ res.status # 500
         /\ IsJPEG(imageBuffer) /\ LegacyShape(req.body))
        => \A i \in 1..3 :
               Truthy(e[camera[i][1]])
               => /\ res.kind = "image"
                  /\ HasTag(res.body.exif, camera[i][2])
                  /\ res.body.exif[camera[i][2]] = JSString(e[camera[i][1]])

\* the input spells a date whose year lies in [MinYear, MaxYear]
DateInRange(v) == v.t = "datestring" /\ v.n >= MinYear /\ v.n <= MaxYear

DateTags == {DateTime, DateTimeOriginal}

\* C15: DateTime and DateTimeOriginal are written, with one value, exactly
\* when the datetime input is a date with a year in [1900, 2100]; any other
\* datetime is dropped, the other fields of the request are written as they
\* are without it, and the request is answered as it is without it.
C15_DatetimeWrittenOrDropped ==
    /\ (variant = "V2" /\ "dump" \in ops)
       => LET dt == req.body.exifData.v["datetime"]
              rest == V2Writes([req.body EXCEPT
                                   !.exifData.v = [f \in LegacyKeys |->
                                       IF f = "datetime" THEN Undef
                                       ELSE req.body.exifData.v[f]]])
          IN  /\ DateInRange(dt)
                 => /\ DateTags \subseteq written
                    /\ exifObj[DateTime] = FormatDate(dt.n)
                    /\ exifObj[DateTimeOriginal] = exifObj[DateTime]
              /\ ~DateInRange(dt) => written \cap DateTags = {}
              /\ written \ DateTags = DOMAIN rest
              /\ \A k \in DOMAIN rest : exifObj[k] = rest[k]
              /\ (pc = "done" /\ "insert" \in ops) => res.status = 200
    /\ (variant = "browser" /\ pc = "done" /\ currentImageData.loaded
        /\ IsJPEG(currentImageData.image) /\ ~OneCoordinateFilled(form))
       => LET dt == form["datetime"]
              rest == FreshExifFrom(collectFormData([form EXCEPT !["datetime"] = Str(<<>>)]))
          IN  /\ "dump" \in ops
                 => /\ DateInRange(dt)
                       => /\ DateTags \subseteq written
                          /\ exifObj[DateTime] = FormatDate(dt.n)
                          /\ exifObj[DateTimeOriginal] = exifObj[DateTime]
                    /\ ~DateInRange(dt) => written \cap DateTags = {}
                    /\ written \ DateTags = DOMAIN rest
                    /\ \A k \in DOMAIN rest : exifObj[k] = rest[k]
              /\ (~DateInRange(dt) /\ DOMAIN rest # {}) => "dump" \in ops
              /\ "insert" \in ops => res.kind = "saved"

C15_Witness ==
    /\ variant = "V2"
    /\ pc = "done"
    /\ req.body.exifData.v["datetime"] = DateStr(1800)
    /\ Truthy(req.body.exifData.v["make"])
    /\ res.status = 200
    /\ Make \in written
    /\ res.body.exif[Make] = JSString(req.body.exifData.v["make"])
    /\ ~HasTag(res.body.exif, DateTime)

\* the coordinate pair a handler reads from the request, as numbers
ReadPair(v, b) ==
    LET e == b.exifData.v
    IN  IF v # "V2" /\ HasNewFormat(b) /\ (Given(b.latitude) \/ Given(b.longitude))
        THEN [lat |-> parseFloat(b.latitude), lon |-> parseFloat(b.longitude),
              given |-> Given(b.latitude) /\ Given(b.longitude)]
        ELSE [lat |-> parseFloat(e["latitude"]), lon |-> parseFloat(e["longitude"]),
              given |-> Given(e["latitude"]) /\ Given(e["longitude"])]

\* not a number, or outside [-90, 90] / [-180, 180]
BadPair(p) ==
    \/ p.lat.nan \/ p.lon.nan
    \/ p.lat.n < (0 - 90) * p.lat.d \/ p.lat.n > 90 * p.lat.d
    \/ p.lon.n < (0 - 180) * p.lon.d \/ p.lon.n > 180 * p.lon.d

GPSSection(c) == {k \in DOMAIN c : k[1] = "GPS"}

\* C16: when the latitude or longitude a server handler reads is out of range
\* or not a number, the merge assigns no tag of the GPS section (no
\* coordinate, no altitude), the GPS section serialized is the one loaded,
\* and the rest of the request is processed: the other tags are written and
\* the image is answered 200.
C16_BadCoordinatesLeaveGPS ==
    LET p == ReadPair(variant, req.body)
    IN  (variant \in Variants /\ "dump" \in ops /\ p.given /\ BadPair(p))
        => /\ \A k \in written : k[1] # "GPS"
           /\ GPSSection(exifObj) = GPSSection(loadedExif)
           /\ \A k \in GPSSection(loadedExif) : exifObj[k] = loadedExif[k]
           /\ variant = "V2"
              => LET e == req.body.exifData.v
                 IN  /\ Truthy(e["description"]) => ImageDescription \in written
                     /\ Truthy(e["make"]) => Make \in written
                     /\ Truthy(e["keywords"]) => DocumentName \in written
           /\ variant = "V3" => exifToolTags = V3Tags(req.body)
           /\ (pc = "done" /\ "insert" \in ops)
              => res.status = 200 /\ res.body.exif = exifObj

C16_Witness ==
    /\ variant = "V2"
    /\ pc = "done"
    /\ req.body.exifData.v["latitude"] = Num(91, 1)
    /\ req.body.exifData.v["longitude"] = LonOk
    /\ Truthy(req.body.exifData.v["make"])
    /\ loadedExif = CameraExif
    /\ res.status = 200
    /\ res.body.exif[GPSLatitude] = CameraExif[GPSLatitude]
    /\ res.body.exif[Make] = JSString(req.body.exifData.v["make"])

\* C17: every convertDDToDMS of the program returns floor(|v|) over 1,
\* floor of the minutes over 1, the seconds rounded to a numerator over the
\* denominator 10000, and N/E for v >= 0, S/W for v < 0.
C17_DMSDenominatorTenThousand ==
    codecPc \in {"converted", "restored"}
    => LET abs == Abs(ddArg.n)
           deg == abs \div ddArg.d
           minNum == (abs - deg * ddArg.d) * 60
           min == minNum \div ddArg.d
           secNum == (minNum - min * ddArg.d) * 60
           dms == dmsResult[1]
       IN  /\ dms[1] = <<deg, 1>>
           /\ dms[2] = <<min, 1>>
           /\ dms[3][2] = 10000
           /\ 2 * Abs(dms[3][1] * ddArg.d - secNum * 10000) <= ddArg.d
           /\ dmsResult[2] = IF isLatArg
                             THEN (IF ddArg.n >= 0 THEN <<"N">> ELSE <<"S">>)
                             ELSE (IF ddArg.n >= 0 THEN <<"E">> ELSE <<"W">>)

\* C18: converting a latitude in [-90, 90] or a longitude in [-180, 180] with
\* convertDDToDMS and reconstructing it with convertDMSToDD gives the
\* original value within half a unit of the seconds denominator (1/(2 * 3600
\* * denominator) degrees), with the original sign.
C18_RoundTrip ==
    codecPc = "restored"
    => LET abs == Abs(ddArg.n)
           frac == abs % ddArg.d
       IN  /\ restored.den = 3600 * SecDenominatorOf(codecFile)
           /\ restored.whole = abs \div ddArg.d
           /\ Abs(frac * restored.den - restored.num * ddArg.d) <= ddArg.d \div 2
           /\ restored.neg = (ddArg.n < 0)

C18_Witness ==
    /\ codecPc = "restored"
    /\ codecFile = "api/edit-exif.js"
    /\ ddArg = [nan |-> FALSE, n |-> 0 - 10619, d |-> 59]
    /\ ~isLatArg
    /\ restored.neg
    /\ restored.whole = 179
    /\ restored.num * 59 # 58 * restored.den

InSecondaryPass(r) == inflight[r] \in {"written", "tooled"}

\* C19: two requests in the secondary pass at the same time never have the
\* same temp path: each request's file is there, holds its own image, and a
\* request only ever reads back its own image.
C19_TempPathsDistinct ==
    /\ \A r1, r2 \in Requests :
           (r1 # r2 /\ InSecondaryPass(r1) /\ InSecondaryPass(r2))
           => tempInput[r1] # tempInput[r2]
    /\ \A r \in Requests :
           InSecondaryPass(r)
           => tempInput[r] \in DOMAIN tmpdir /\ tmpdir[tempInput[r]].image = r
    /\ \A r \in Requests : readBack[r] \in {0, r}

\* C20: when a request that wrote its temp file is answered, the file no
\* longer exists, on the success path and on every failure path (an unlink
\* that itself threw set aside).
C20_TempFileRemoved ==
    (ServerRequest /\ pc = "done" /\ "tempwrite" \in ops /\ ~tempFile.stuck)
    => ~tempFile.exists

\* C21: every POST that reaches an embed handler is eventually answered, also
\* when the image host never answers the fetch.
C21_EveryRequestAnswered ==
    (ServerRequest /\ pc = "received") ~> (pc = "done")

\* C22: when piexif.dump or piexif.insert throws, the request is answered 500
\* with the error 'Failed to process image' and the thrown error's message;
\* an image is only ever sent after the merge was serialized and inserted, and
\* it carries the merged container.
C22_ExifFailureIs500 ==
    /\ (ServerRequest /\ DumpThrew)
       => /\ pc = "done"
          /\ res.status = 500
          /\ res.kind = "json"
          /\ res.error = "Failed to process image"
          /\ res.message = DumpFailed.message
    /\ (ServerRequest /\ res.kind = "image")
       => /\ {"dump", "insert"} \subseteq ops
          /\ res.body.exif = exifObj

C22_Witness ==
    /\ variant = "V3"
    /\ pc = "done"
    /\ DumpThrew
    /\ imageBuffer = JpegWithExif
    /\ res.status = 500

\* the parts of a text that are internal paths
PathsIn(text) == {text[i] : i \in 1..Len(text)} \cap InternalPaths

\* C23: a JSON error response names no internal path: its message and details
\* hold none and it carries no stack frames.
C23_ErrorsHideInternals ==
    (ServerRequest /\ pc = "done" /\ res.kind = "json")
    => /\ PathsIn(res.message) = {}
       /\ PathsIn(res.details) = {}
       /\ res.stack = <<>>

\* the position of a stage in the pipeline; the three awaits of the ExifTool
\* pass lie between Merged and EnrichedOrSkipped
StageRank(p) ==
    CASE p = "idle" -> 0
      [] p = "received" -> 1
      [] p = "validated" -> 2
      [] p = "loaded" -> 3
      [] p = "merged" -> 4
      [] p = "toolwrite" -> 5
      [] p = "toolend" -> 6
      [] p = "readback" -> 7
      [] p = "enriched" -> 8
      [] p = "done" -> 9

\* the image operations a step out of stage p may perform
OpsOfStage(p) ==
    CASE p = "validated" -> {"fetch", "decode"}
      [] p = "loaded" -> {"load", "dump", "insert"}
      [] p = "merged" -> {"tempwrite"}
      [] OTHER -> {}

\* C24: every step of an embed request moves it to a later stage, so no stage
\* is entered twice and nothing is retried; the image is obtained, the EXIF is
\* serialized and the temp file is written only in the step leaving the stage
\* each belongs to; a response is sent exactly when the request is done and it is
\* never replaced by a second one.
C24_StagesInOrder ==
    /\ [](variant \in Variants => (pc = "done" <=> res # NoResponse))
    /\ [][variant' \in Variants
          => /\ StageRank(pc') > StageRank(pc)
             /\ (ops' \ ops) \subseteq OpsOfStage(pc)
             /\ res # NoResponse => res' = res]_vars

C24_Witness ==
    /\ variant = "V1"
    /\ pc = "done"
    /\ ops = {"fetch", "load", "dump", "insert", "tempwrite"}
    /\ exiftool = "ended"
    /\ res.status = 200
    /\ res.body.xmp # NoTags

\* C25: a save in the browser keeps every tag of the loaded image that the
\* form did not set: the saved image holds it with the same value.
C25_SaveKeepsOtherTags ==
    [][(pc = "editing" /\ res'.kind = "saved")
       => \A k \in DOMAIN currentImageData.image.exif \ DOMAIN collectFormData(form) :
              /\ HasTag(res'.body.exif, k)
              /\ res'.body.exif[k] = currentImageData.image.exif[k]]_vars

\* the save cannot succeed: nothing is loaded, one coordinate alone is filled,
\* the data is no JPEG, no field yields a tag, or the serialization throws
SaveMustFail(f, cur, dumpOk) ==
    \/ ~cur.loaded
    \/ (Len(Trim(f["latitude"].s)) > 0) # (Len(Trim(f["longitude"].s)) > 0)
    \/ ~IsJPEG(cur.image)
    \/ DOMAIN FreshExifFrom(collectFormData(f)) = {}
    \/ ~dumpOk

\* C29: a click on Save that fails answers with an alert and leaves
\* currentImageData as it was, with no preview and no download; whenever
\* currentImageData is replaced, it is by the image writeExifData returned,
\* which is also the one shown and downloaded.
C29_FailedSaveChangesNothing ==
    [][pc = "editing"
       => /\ \A dumpOk \in BOOLEAN :
                 (SaveMustFail(form, currentImageData, dumpOk) /\ SaveClick(dumpOk))
                 => /\ res'.kind = "alert"
                    /\ currentImageData' = currentImageData
                    /\ previewImg' = previewImg
          /\ res'.kind = "alert"
             => currentImageData' = currentImageData /\ previewImg' = previewImg
          /\ (currentImageData' # currentImageData \/ previewImg' # previewImg)
             => /\ res'.kind = "saved"
                /\ IsJPEG(currentImageData.image)
                /\ currentImageData' = DataUrl(res'.body)
                /\ previewImg' = DataUrl(res'.body)
                /\ res'.body = InsertExif(FreshExifFrom(collectFormData(form)),
                                          currentImageData.image)]_vars

C29_Witness ==
    /\ variant = "browser"
    /\ pc = "done"
    /\ res.kind = "alert"
    /\ res.error = "Failed to create EXIF data"
    /\ currentImageData = DataUrl(JpegWithExif)
    /\ previewImg = DataUrl(JpegWithExif)
    /\ "dump" \in ops

\* a crop value of the request as a number of pixels, 0 when it is absent
Pixels(v) == IF v.t = "number" THEN v.n ELSE 0

\* the region the request asks for lies inside an image of W by H pixels
RegionInside(o, W, H) ==
    /\ Pixels(o.left) >= 0
    /\ Pixels(o.top) >= 0
    /\ Pixels(o.right) >= 0
    /\ Pixels(o.bottom) >= 0
    /\ W - Pixels(o.left) - Pixels(o.right) > 0
    /\ H - Pixels(o.top) - Pixels(o.bottom) > 0

AnyCropValuePositive(o) ==
    \E v \in {o.top, o.bottom, o.left, o.right} : v.t = "number" /\ v.n > 0

\* C26: sharp's extract is called only with a region inside the image (left
\* and top not negative, width and height positive, the far edges within the
\* image), which is the region the request's four values describe; a POST
\* with an image source and no crop value above 0 is answered 400, and so is
\* one whose values leave the image once its size is known; neither reaches
\* the extract.
C26_ExtractInsideImage ==
    /\ extractArea.called
       => /\ extractArea.left >= 0 /\ extractArea.top >= 0
          /\ extractArea.width > 0 /\ extractArea.height > 0
          /\ extractArea.left + extractArea.width <= metadata.width
          /\ extractArea.top + extractArea.height <= metadata.height
          /\ extractArea.left = Pixels(cropReq.cropOptions.left)
          /\ extractArea.top = Pixels(cropReq.cropOptions.top)
          /\ extractArea.width = metadata.width - Pixels(cropReq.cropOptions.left)
                                 - Pixels(cropReq.cropOptions.right)
          /\ extractArea.height = metadata.height - Pixels(cropReq.cropOptions.top)
                                  - Pixels(cropReq.cropOptions.bottom)
    /\ (cropPc = "done" /\ cropReq.method = "POST" /\ cropReq.source # "none"
        /\ ~AnyCropValuePositive(cropReq.cropOptions))
       => cropRes.status = 400 /\ ~extractArea.called
    /\ (cropPc \in {"extracting", "done"} /\ metadata # NoMetadata
        /\ ~RegionInside(cropReq.cropOptions, metadata.width, metadata.height))
       => cropPc = "done" /\ cropRes.status = 400 /\ ~extractArea.called

C26_Witness ==
    /\ cropPc = "done"
    /\ cropRes.status = 400
    /\ cropRes.error = "Crop area exceeds image boundaries."
    /\ cropReq.cropOptions.left = Num(0 - 1, 1)
    /\ cropReq.cropOptions.right = Num(1, 1)

\* C27: the triple convertDDToDMS returns for a coordinate in range is
\* normalised: whole degrees at most 90 (latitude) or 180 (longitude),
\* minutes in 0..59, seconds below 60.
C27_DMSNormalised ==
    codecPc \in {"converted", "restored"}
    => LET deg == dmsResult[1][1]
           min == dmsResult[1][2]
           sec == dmsResult[1][3]
       IN  /\ deg[2] = 1 /\ deg[1] >= 0
           /\ deg[1] <= (IF isLatArg THEN 90 ELSE 180)
           /\ min[2] = 1 /\ min[1] \in 0..59
           /\ sec[1] >= 0
           /\ sec[1] < 60 * sec[2]

\* C28: when the response is sent, every ExifTool instance the request
\* created has been ended, whether its write succeeded or a step of the pass
\* threw (an end() that itself rejected set aside).
C28_ExifToolEnded ==
    (ServerRequest /\ pc = "done" /\ exiftool # "none"
     /\ exifToolError # "exiftool.end")
    => exiftool = "ended"

\* the load whose picture a data URL shows
PictureOf(data) == data.image.bytes[3]

\* C30: when load 2 was started while load 1 was still in progress and both
\* have completed, the page holds load 2: currentImageData and the preview
\* show its picture and originalImageFormat is the format its reader found.
C30_LastStartedLoadWins ==
    (loading[2].overlaps /\ \A l \in Loads : loading[l].at = "done")
    => /\ PictureOf(currentImageData) = 2
       /\ PictureOf(previewImg) = 2
       /\ originalImageFormat = MimeOf(loading[2].image)

====
